---------------------------- MODULE Spec2Model ----------------------------
(***************************************************************************)
(* Model of StructuralSolver (src/unnamed/part_002): the plane-frame       *)
(* direct stiffness solver.  Numbers are exact rationals <<n, d>> (d > 0,  *)
(* lowest terms); the solver's double arithmetic is modelled by exact      *)
(* arithmetic on inputs whose lengths are integers.                        *)
(***************************************************************************)
EXTENDS Integers, Sequences, FiniteSets, TLC

(***************************************************************************)
(* Exact rational arithmetic (the solver's `number` type).                 *)
(***************************************************************************)
Abs(i) == IF i < 0 THEN -i ELSE i

RECURSIVE GCD(_, _)
GCD(a, b) == IF b = 0 THEN a ELSE GCD(b, a % b)

NormBy(n, d, g) == IF d < 0 THEN <<(-n) \div g, (-d) \div g>> ELSE <<n \div g, d \div g>>

Norm(n, d) == NormBy(n, d, GCD(Abs(n), Abs(d)))

Zero == <<0, 1>>
One  == <<1, 1>>
R(i) == <<i, 1>>

RNeg(a) == <<-a[1], a[2]>>

RAddBy(a, b, g) ==
    Norm(a[1] * (b[2] \div g) + b[1] * (a[2] \div g), (a[2] \div g) * b[2])

RAdd(a, b) ==
    IF a[1] = 0 THEN b
    ELSE IF b[1] = 0 THEN a
    ELSE RAddBy(a, b, GCD(a[2], b[2]))

RSub(a, b) == RAdd(a, RNeg(b))

RMulBy(a, b, g1, g2) ==
    <<(a[1] \div g1) * (b[1] \div g2), (a[2] \div g2) * (b[2] \div g1)>>

RMul(a, b) ==
    IF a[1] = 0 \/ b[1] = 0 THEN Zero
    ELSE RMulBy(a, b, GCD(Abs(a[1]), b[2]), GCD(Abs(b[1]), a[2]))

RInv(a) == IF a[1] < 0 THEN <<-a[2], -a[1]>> ELSE <<a[2], a[1]>>

RDiv(a, b) == RMul(a, RInv(b))

RAbs(a) == <<Abs(a[1]), a[2]>>

RLess(a, b) == a[1] * b[2] < b[1] * a[2]

\* Math.sqrt on the sums of squares the model's geometry produces (exact roots).
Sqrt(n) == CHOOSE r \in 0..n : r * r = n

(***************************************************************************)
(* Vectors and matrices (mathjs), 0-based as in the source.                *)
(***************************************************************************)
zeros(rows, cols) == [i \in 0..(rows - 1) |-> [j \in 0..(cols - 1) |-> Zero]]

zerosVec(rows) == [i \in 0..(rows - 1) |-> Zero]

RECURSIVE DotFrom(_, _, _, _)
DotFrom(u, v, k, n) ==
    IF k >= n THEN Zero ELSE RAdd(RMul(u[k], v[k]), DotFrom(u, v, k + 1, n))

\* math.multiply(A, B) for square n x n matrices
multiply(A, B, n) ==
    [i \in 0..(n - 1) |-> [j \in 0..(n - 1) |->
        DotFrom(A[i], [k \in 0..(n - 1) |-> B[k][j]], 0, n)]]

\* math.multiply(A, v) for an n x n matrix and an n-vector
multiplyVec(A, v, n) == [i \in 0..(n - 1) |-> DotFrom(A[i], v, 0, n)]

transpose(A, n) == [i \in 0..(n - 1) |-> [j \in 0..(n - 1) |-> A[j][i]]]

addVec(u, v) == [i \in DOMAIN u |-> RAdd(u[i], v[i])]

\* the sum of f over the set S
RECURSIVE SumOver(_, _)
SumOver(S, f) ==
    IF S = {} THEN Zero
    ELSE RAdd(f[CHOOSE x \in S : TRUE], SumOver(S \ {CHOOSE x \in S : TRUE}, f))

\* the sum of f[idx[k]], ..., f[idx[Len(idx)]]
RECURSIVE SumSeq(_, _, _)
SumSeq(idx, f, k) == IF k > Len(idx) THEN Zero ELSE RAdd(f[idx[k]], SumSeq(idx, f, k + 1))

(***************************************************************************)
(* Input collections (src/unnamed/part_001).                               *)
(***************************************************************************)
\* The value of Array.prototype.find / Map.prototype.get when nothing matches.
undefinedNode == [id |-> "undefined", x |-> 0, y |-> 0]

undefinedMember ==
    [id |-> "undefined", startNodeId |-> "undefined", endNodeId |-> "undefined",
     startRelease |-> "fixed", endRelease |-> "fixed", E |-> 0, I |-> 0, A |-> 0]

undefinedIndex == -1

VARIABLES
    nodes,            \* this.nodes    : Node[]
    members,          \* this.members  : Member[]
    supports,         \* this.supports : Support[]
    loads,            \* this.loads    : Load[]
    dofMap,           \* this.dofMap   : "nodeId-dof" -> global index
    totalDOF,         \* this.totalDOF
    pc,               \* position of the running solve() call ("idle": none running)
    K,                \* solve() local: global stiffness matrix
    F,                \* solve() local: global load vector
    constrainedDOFs,  \* solve() local
    finalFreeDOFs,    \* solve() local
    d_global,         \* solve() local: global displacement vector
    outcomes          \* what each completed solve() call returned or threw, in order

inputs == <<nodes, members, supports, loads>>
fields == <<dofMap, totalDOF>>
locals == <<K, F, constrainedDOFs, finalFreeDOFs, d_global>>
vars == <<nodes, members, supports, loads, dofMap, totalDOF, pc,
          K, F, constrainedDOFs, finalFreeDOFs, d_global, outcomes>>

\* the first / the last element of a collection that carries the id
firstWith(seq, id) ==
    CHOOSE k \in 1..Len(seq) : seq[k].id = id /\ \A j \in 1..(k - 1) : seq[j].id # id

lastWith(seq, id) ==
    CHOOSE k \in 1..Len(seq) : seq[k].id = id /\ \A j \in (k + 1)..Len(seq) : seq[j].id # id

\* nodes.find(n => n.id === id)
findNode(id) ==
    IF \E i \in 1..Len(nodes) : nodes[i].id = id
    THEN nodes[firstWith(nodes, id)]
    ELSE undefinedNode

\* members.find(m => m.id === id)
findMember(id) ==
    IF \E i \in 1..Len(members) : members[i].id = id
    THEN members[firstWith(members, id)]
    ELSE undefinedMember

(***************************************************************************)
(* 4.1 Degree-of-freedom indexer.                                          *)
(***************************************************************************)
\* a variant that counts the nodes from one
dofIndex_oneBased(index, kind) ==
    CASE kind = "x" -> (index + 1) * 3
      [] kind = "y" -> (index + 1) * 3 + 1
      [] kind = "r" -> (index + 1) * 3 + 2

\* index * 3, index * 3 + 1, index * 3 + 2 for the unknown kinds x, y, r
dofIndex(index, kind) ==
    CASE kind = "x" -> index * 3
      [] kind = "y" -> index * 3 + 1
      [] kind = "r" -> index * 3 + 2

\* The key `${node.id}-x` is modelled by the pair <<node.id, "x">>.
\* forEach with Map.set: a later node with the same id overwrites an earlier one.
initializeDOF(ns) ==
    [key \in {<<ns[i].id, k>> : i \in 1..Len(ns), k \in {"x", "y", "r"}} |->
        dofIndex(lastWith(ns, key[1]) - 1, key[2])]

\* this.dofMap.get(`${nodeId}-${k}`)
dofGet(nodeId, k) ==
    IF <<nodeId, k>> \in DOMAIN dofMap THEN dofMap[<<nodeId, k>>] ELSE undefinedIndex

(***************************************************************************)
(* Completion of a call: a returned value or a thrown error.               *)
(***************************************************************************)
Return(v) == [threw |-> FALSE, value |-> v]

Throw(name, message, about) ==
    [threw |-> TRUE, error |-> [name |-> name, message |-> message, about |-> about]]

MissingNodesMessage  == "Invalid member: Missing node(s)"
LengthZeroMessage    == "Invalid member: Length is zero."
UnstableMessage      == "Structure is unstable or singular matrix."
UndefinedReadMessage == "Cannot read properties of undefined"

(***************************************************************************)
(* 4.2 Element formulator.                                                 *)
(***************************************************************************)
\* a 6 x 6 matrix literal, rows written as in the source
matrix6(rows) == [i \in 0..5 |-> [j \in 0..5 |-> rows[i + 1][j + 1]]]

\* the direction-cosine matrix T
rotation(c, s) ==
    matrix6(<< <<c, s, Zero, Zero, Zero, Zero>>,
               <<RNeg(s), c, Zero, Zero, Zero, Zero>>,
               <<Zero, Zero, One, Zero, Zero, Zero>>,
               <<Zero, Zero, Zero, c, s, Zero>>,
               <<Zero, Zero, Zero, RNeg(s), c, Zero>>,
               <<Zero, Zero, Zero, Zero, Zero, One>> >>)

memberLength(startNode, endNode) ==
    Sqrt((endNode.x - startNode.x) * (endNode.x - startNode.x)
         + (endNode.y - startNode.y) * (endNode.y - startNode.y))

\* a variant without the release handling of lines 183-218
k_local_vals_unreleased(startRelease, endRelease, w1, w2, w3, w4, w5, w2_mod, w3_mod, w4_mod, Z) ==
    matrix6(<< <<w1, Z, Z, RNeg(w1), Z, Z>>,
               <<Z, w2, w3, Z, RNeg(w2), w3>>,
               <<Z, w3, w4, Z, RNeg(w3), w5>>,
               <<RNeg(w1), Z, Z, w1, Z, Z>>,
               <<Z, RNeg(w2), RNeg(w3), Z, w2, RNeg(w3)>>,
               <<Z, w3, w5, Z, RNeg(w3), w4>> >>)

\* k_local_vals for the four release combinations, Z being 0
k_local_vals(startRelease, endRelease, w1, w2, w3, w4, w5, w2_mod, w3_mod, w4_mod, Z) ==
    IF startRelease = "pinned" /\ endRelease = "fixed" THEN
        matrix6(<< <<w1, Z, Z, RNeg(w1), Z, Z>>,
                   <<Z, w2_mod, Z, Z, RNeg(w2_mod), w3_mod>>,
                   <<Z, Z, Z, Z, Z, Z>>,
                   <<RNeg(w1), Z, Z, w1, Z, Z>>,
                   <<Z, RNeg(w2_mod), Z, Z, w2_mod, RNeg(w3_mod)>>,
                   <<Z, w3_mod, Z, Z, RNeg(w3_mod), w4_mod>> >>)
    ELSE IF startRelease = "fixed" /\ endRelease = "pinned" THEN
        matrix6(<< <<w1, Z, Z, RNeg(w1), Z, Z>>,
                   <<Z, w2_mod, w3_mod, Z, RNeg(w2_mod), Z>>,
                   <<Z, w3_mod, w4_mod, Z, RNeg(w3_mod), Z>>,
                   <<RNeg(w1), Z, Z, w1, Z, Z>>,
                   <<Z, RNeg(w2_mod), RNeg(w3_mod), Z, w2_mod, Z>>,
                   <<Z, Z, Z, Z, Z, Z>> >>)
    ELSE IF startRelease = "pinned" /\ endRelease = "pinned" THEN
        matrix6(<< <<w1, Z, Z, RNeg(w1), Z, Z>>,
                   <<Z, Z, Z, Z, Z, Z>>,
                   <<Z, Z, Z, Z, Z, Z>>,
                   <<RNeg(w1), Z, Z, w1, Z, Z>>,
                   <<Z, Z, Z, Z, Z, Z>>,
                   <<Z, Z, Z, Z, Z, Z>> >>)
    ELSE
        matrix6(<< <<w1, Z, Z, RNeg(w1), Z, Z>>,
                   <<Z, w2, w3, Z, RNeg(w2), w3>>,
                   <<Z, w3, w4, Z, RNeg(w3), w5>>,
                   <<RNeg(w1), Z, Z, w1, Z, Z>>,
                   <<Z, RNeg(w2), RNeg(w3), Z, w2, RNeg(w3)>>,
                   <<Z, w3, w5, Z, RNeg(w3), w4>> >>)

\* the local stiffness of a member of length L > 0
localStiffness(member, L) ==
    k_local_vals(member.startRelease, member.endRelease,
                 Norm(member.E * member.A, L),
                 Norm(12 * member.E * member.I, L * L * L),
                 Norm(6 * member.E * member.I, L * L),
                 Norm(4 * member.E * member.I, L),
                 Norm(2 * member.E * member.I, L),
                 Norm(3 * member.E * member.I, L * L * L),
                 Norm(3 * member.E * member.I, L * L),
                 Norm(3 * member.E * member.I, L),
                 Zero)

\* a variant that forgets the transposition: T * k_local * T
toGlobal_untransposed(T, k_local) == multiply(multiply(T, k_local, 6), T, 6)

\* transpose(T) * k_local * T
toGlobal(T, k_local) == multiply(multiply(transpose(T, 6), k_local, 6), T, 6)

stiffnessOfLength(member, dx, dy, L) ==
    IF L = 0 THEN Throw("Error", LengthZeroMessage, member.id)
    ELSE Return(toGlobal(rotation(Norm(dx, L), Norm(dy, L)), localStiffness(member, L)))

\* a variant without the test of lines 153-155: endNode.x is read on undefined
getMemberGlobalStiffnessMatrix_unchecked(member, startNode, endNode) ==
    IF startNode = undefinedNode \/ endNode = undefinedNode THEN
        Throw("TypeError", UndefinedReadMessage, member.id)
    ELSE
        stiffnessOfLength(member, endNode.x - startNode.x, endNode.y - startNode.y,
                          memberLength(startNode, endNode))

getMemberGlobalStiffnessMatrix(member, startNode, endNode) ==
    IF startNode = undefinedNode \/ endNode = undefinedNode THEN
        Throw("Error", MissingNodesMessage, member.id)
    ELSE
        stiffnessOfLength(member, endNode.x - startNode.x, endNode.y - startNode.y,
                          memberLength(startNode, endNode))

\* <<V_start_fixed, M_start_fixed, V_end_fixed, M_end_fixed>>
fixedFixedForces(P, a, b, L) ==
    << RNeg(RDiv(RMul(RMul(RMul(P, b), b), RAdd(RMul(R(3), a), b)), R(L * L * L))),
       RNeg(RDiv(RMul(RMul(RMul(P, a), b), b), R(L * L))),
       RNeg(RDiv(RMul(RMul(RMul(P, a), a), RAdd(a, RMul(R(3), b))), R(L * L * L))),
       RDiv(RMul(RMul(RMul(P, a), a), b), R(L * L)) >>

\* a variant that releases the start moment without the carryover to the end
releaseStart_noCarry(ff, M_rel, L) ==
    <<Zero, RAdd(ff[1], RDiv(RMul(<<3, 2>>, M_rel), R(L))), Zero,
      Zero, RSub(ff[3], RDiv(RMul(<<3, 2>>, M_rel), R(L))), ff[4]>>

\* the release of the start moment: M_rel = -m_start
releaseStart(ff, M_rel, L) ==
    <<Zero, RAdd(ff[1], RDiv(RMul(<<3, 2>>, M_rel), R(L))), Zero,
      Zero, RSub(ff[3], RDiv(RMul(<<3, 2>>, M_rel), R(L))), RAdd(ff[4], RMul(<<1, 2>>, M_rel))>>

\* a variant that applies the shear correction with the same sign at both ends
releaseEnd_sameSign(ff, M_rel, L) ==
    <<Zero, RAdd(ff[1], RDiv(RMul(<<3, 2>>, M_rel), R(L))), RAdd(ff[2], RMul(<<1, 2>>, M_rel)),
      Zero, RAdd(ff[3], RDiv(RMul(<<3, 2>>, M_rel), R(L))), Zero>>

\* the release of the end moment: M_rel = -m_end
releaseEnd(ff, M_rel, L) ==
    <<Zero, RAdd(ff[1], RDiv(RMul(<<3, 2>>, M_rel), R(L))), RAdd(ff[2], RMul(<<1, 2>>, M_rel)),
      Zero, RSub(ff[3], RDiv(RMul(<<3, 2>>, M_rel), R(L))), Zero>>

adjustForReleases(member, ff, P, a, b, L) ==
    IF member.startRelease = "pinned" /\ member.endRelease = "pinned" THEN
        <<Zero, RNeg(RDiv(RMul(P, b), R(L))), Zero, Zero, RNeg(RDiv(RMul(P, a), R(L))), Zero>>
    ELSE IF member.startRelease = "pinned" THEN releaseStart(ff, RNeg(ff[2]), L)
    ELSE IF member.endRelease = "pinned" THEN releaseEnd(ff, RNeg(ff[4]), L)
    ELSE <<Zero, ff[1], ff[2], Zero, ff[3], ff[4]>>

\* [0, fy_start, m_start, 0, fy_end, m_end] for P at a on a member of length L, b = L - a
localFixedEndForces(member, P, a, b, L) ==
    adjustForReleases(member, fixedFixedForces(P, a, b, L), P, a, b, L)

toVector6(f) == [i \in 0..5 |-> f[i + 1]]

calculateLocalFixedEndForces(member, load, startNode, endNode) ==
    IF startNode = undefinedNode \/ endNode = undefinedNode THEN
        Throw("Error", MissingNodesMessage, member.id)
    ELSE
        Return(toVector6(localFixedEndForces(member, R(load.magnitude), R(load.position),
                   RSub(R(memberLength(startNode, endNode)), R(load.position)),
                   memberLength(startNode, endNode))))

\* Math.cos(Math.atan2(dy, dx)) and Math.sin(Math.atan2(dy, dx)); atan2(0, 0) is 0
cosAtan2(dy, dx, L) == IF L = 0 THEN One ELSE Norm(dx, L)
sinAtan2(dy, dx, L) == IF L = 0 THEN Zero ELSE Norm(dy, L)

\* transpose(T) * f_local
fixedEndToGlobal(dx, dy, L, f_local) ==
    IF f_local.threw THEN f_local
    ELSE Return(multiplyVec(transpose(rotation(cosAtan2(dy, dx, L), sinAtan2(dy, dx, L)), 6),
                            f_local.value, 6))

getGlobalFixedEndForces(member, load, startNode, endNode) ==
    IF startNode = undefinedNode \/ endNode = undefinedNode THEN
        \* endNode.x - startNode.x on undefined
        Throw("TypeError", UndefinedReadMessage, member.id)
    ELSE
        fixedEndToGlobal(endNode.x - startNode.x, endNode.y - startNode.y,
                         memberLength(startNode, endNode),
                         calculateLocalFixedEndForces(member, load, startNode, endNode))

\* dofIndices of a member whose two nodes exist
dofIndices(startNode, endNode) ==
    [i \in 0..5 |->
        CASE i = 0 -> dofGet(startNode.id, "x")
          [] i = 1 -> dofGet(startNode.id, "y")
          [] i = 2 -> dofGet(startNode.id, "r")
          [] i = 3 -> dofGet(endNode.id, "x")
          [] i = 4 -> dofGet(endNode.id, "y")
          [] i = 5 -> dofGet(endNode.id, "r")]

(***************************************************************************)
(* 4.3 System assembler and solver.                                        *)
(***************************************************************************)
\* the double loop K.set([row, col], K.get([row, col]) + k_global.get([i, j]))
addStiffness(Kacc, k_global, idx) ==
    [row \in DOMAIN Kacc |-> [col \in DOMAIN Kacc |->
        RAdd(Kacc[row][col],
             SumOver({ij \in (0..5) \X (0..5) : idx[ij[1]] = row /\ idx[ij[2]] = col},
                     [ij \in (0..5) \X (0..5) |-> k_global[ij[1]][ij[2]]]))]]

\* this.members.forEach(...) of step 1, from member i on: the first throw ends it
RECURSIVE assembleStiffness(_, _)
\* a variant that skips a member the formulator rejects
addMember_skipsInvalid(Kacc, i, k_global, idx) ==
    IF k_global.threw THEN assembleStiffness(Kacc, i + 1)
    ELSE assembleStiffness(addStiffness(Kacc, k_global.value, idx), i + 1)

addMember(Kacc, i, k_global, idx) ==
    IF k_global.threw THEN k_global
    ELSE assembleStiffness(addStiffness(Kacc, k_global.value, idx), i + 1)

\* a variant that leaves the formulation of the members to the result extraction
addMemberBetween_unformulated(Kacc, i, member, startNode, endNode) ==
    assembleStiffness(Kacc, i + 1)

addMemberBetween(Kacc, i, member, startNode, endNode) ==
    addMember(Kacc, i, getMemberGlobalStiffnessMatrix(member, startNode, endNode),
              dofIndices(startNode, endNode))

assembleStiffness(Kacc, i) ==
    IF i > Len(members) THEN Return(Kacc)
    ELSE addMemberBetween(Kacc, i, members[i], findNode(members[i].startNodeId),
                          findNode(members[i].endNodeId))

\* a variant that adds the fixed-end forces instead of subtracting them
addLoad_unflipped(Facc, fef_global, idx) ==
    [row \in DOMAIN Facc |->
        RAdd(Facc[row], SumOver({i \in 0..5 : idx[i] = row}, fef_global))]

\* the loop F.set([row, 0], F.get([row, 0]) - fef_global[i])
addLoad(Facc, fef_global, idx) ==
    [row \in DOMAIN Facc |->
        RSub(Facc[row], SumOver({i \in 0..5 : idx[i] = row}, fef_global))]

\* this.loads.forEach(...) of step 2, from load i on
RECURSIVE assembleLoads(_, _)
addFixedEnd(Facc, i, fef_global, idx) ==
    IF fef_global.threw THEN fef_global
    ELSE assembleLoads(addLoad(Facc, fef_global.value, idx), i + 1)

addLoadBetween(Facc, i, load, member, startNode, endNode) ==
    addFixedEnd(Facc, i, getGlobalFixedEndForces(member, load, startNode, endNode),
                dofIndices(startNode, endNode))

\* a variant that skips a load whose member is not found
addLoadOn_skipsMissing(Facc, i, load, member) ==
    IF member = undefinedMember THEN assembleLoads(Facc, i + 1)
    ELSE addLoadBetween(Facc, i, load, member, findNode(member.startNodeId),
                        findNode(member.endNodeId))

addLoadOn(Facc, i, load, member) ==
    IF member = undefinedMember THEN
        \* member.startNodeId on undefined
        Throw("TypeError", UndefinedReadMessage, load.id)
    ELSE addLoadBetween(Facc, i, load, member, findNode(member.startNodeId),
                        findNode(member.endNodeId))

assembleLoads(Facc, i) ==
    IF i > Len(loads) THEN Return(Facc)
    ELSE addLoadOn(Facc, i, loads[i], findMember(loads[i].memberId))

\* a variant in which a roller turned by 90 degrees holds x instead of y
supportDOFs_byAngle(support) ==
    IF support.type = "pin" THEN
        <<dofGet(support.nodeId, "x"), dofGet(support.nodeId, "y")>>
    ELSE IF support.type = "fixed" THEN
        <<dofGet(support.nodeId, "x"), dofGet(support.nodeId, "y"), dofGet(support.nodeId, "r")>>
    ELSE IF support.type = "roller" THEN
        IF support.angle = 90 THEN <<dofGet(support.nodeId, "x")>>
        ELSE <<dofGet(support.nodeId, "y")>>
    ELSE <<>>

\* what one support pushes onto constrainedDOFs
supportDOFs(support) ==
    IF support.type = "pin" THEN
        <<dofGet(support.nodeId, "x"), dofGet(support.nodeId, "y")>>
    ELSE IF support.type = "fixed" THEN
        <<dofGet(support.nodeId, "x"), dofGet(support.nodeId, "y"), dofGet(support.nodeId, "r")>>
    ELSE IF support.type = "roller" THEN
        <<dofGet(support.nodeId, "y")>>
    ELSE <<>>

\* this.supports.forEach(...) of step 3, from support i on
RECURSIVE constrain(_, _)
constrain(acc, i) ==
    IF i > Len(supports) THEN acc ELSE constrain(acc \o supportDOFs(supports[i]), i + 1)

\* freeDOFs.filter(dof => !constrainedDOFs.includes(dof)), freeDOFs being 0..totalDOF-1
RECURSIVE filterFree(_, _)
filterFree(constrained, dof) ==
    IF dof >= totalDOF THEN <<>>
    ELSE IF \E k \in 1..Len(constrained) : constrained[k] = dof
         THEN filterFree(constrained, dof + 1)
         ELSE <<dof>> \o filterFree(constrained, dof + 1)

\* 1e-9 is 1 / StabilityThresholdInverse
StabilityThresholdInverse == 1000000000
DummyStiffness == 1

\* Math.abs(q) < 1e-9
belowThreshold(q) == Abs(q[1]) <= (q[2] - 1) \div StabilityThresholdInverse

\* a variant that adds the dummy stiffness to every diagonal entry
stabilize_everyDiagonal(Kin) ==
    [i \in DOMAIN Kin |-> [j \in DOMAIN Kin |->
        IF i = j THEN RAdd(Kin[i][i], R(DummyStiffness)) ELSE Kin[i][j]]]

stabilize(Kin) ==
    [i \in DOMAIN Kin |-> [j \in DOMAIN Kin |->
        IF i = j /\ belowThreshold(Kin[i][i]) THEN R(DummyStiffness) ELSE Kin[i][j]]]

\* math.subset(K, math.index(dofs, dofs)) and math.subset(F, math.index(dofs, 0))
subsetMatrix(Kin, dofs) ==
    [i \in 0..(Len(dofs) - 1) |-> [j \in 0..(Len(dofs) - 1) |-> Kin[dofs[i + 1]][dofs[j + 1]]]]

subsetVector(Fin, dofs) == [i \in 0..(Len(dofs) - 1) |-> Fin[dofs[i + 1]]]

identity(n) == [i \in 0..(n - 1) |-> [j \in 0..(n - 1) |-> IF i = j THEN One ELSE Zero]]

\* math.inv: Gauss-Jordan elimination with partial pivoting from column c on;
\* a column with no non-zero pivot throws.
swapRows(M, c, rBig, n) ==
    [r \in 0..(n - 1) |-> IF r = c THEN M[rBig] ELSE IF r = rBig THEN M[c] ELSE M[r]]

\* row c divided by the pivot, every other row cleared in column c
eliminate(M, As, c, n) ==
    [r \in 0..(n - 1) |->
        IF r = c THEN [s \in 0..(n - 1) |-> RDiv(M[c][s], As[c][c])]
        ELSE IF As[r][c][1] = 0 THEN M[r]
        ELSE [s \in 0..(n - 1) |->
                 RAdd(M[r][s], RMul(RDiv(RNeg(As[r][c]), As[c][c]), M[c][s]))]]

\* the first row of largest absolute value in column c among the candidates
pivotRow(A, c, cand) ==
    CHOOSE r \in cand : \A q \in cand :
        /\ ~RLess(RAbs(A[r][c]), RAbs(A[q][c]))
        /\ (q < r => RLess(RAbs(A[q][c]), RAbs(A[r][c])))

RECURSIVE gaussJordan(_, _, _, _)
gaussJordanSwapped(As, Bs, c, n) ==
    gaussJordan(eliminate(As, As, c, n), eliminate(Bs, As, c, n), c + 1, n)

gaussJordanPivot(A, B, c, n, rBig) ==
    gaussJordanSwapped(swapRows(A, c, rBig, n), swapRows(B, c, rBig, n), c, n)

gaussJordanColumn(A, B, c, n, cand) ==
    IF cand = {} THEN Throw("Error", "Cannot calculate inverse, determinant is zero", "matrix")
    ELSE gaussJordanPivot(A, B, c, n, pivotRow(A, c, cand))

gaussJordan(A, B, c, n) ==
    IF c >= n THEN Return(B)
    ELSE gaussJordanColumn(A, B, c, n, {r \in c..(n - 1) : A[r][c][1] # 0})

inv(A, n) == gaussJordan(A, identity(n), 0, n)

\* finalFreeDOFs.forEach((dof, i) => d_global.set([dof, 0], d_f.get([i, 0])))
scatter(d_f, dofs) ==
    [dof \in 0..(totalDOF - 1) |->
        IF \E i \in 1..Len(dofs) : dofs[i] = dof
        THEN d_f[(CHOOSE i \in 1..Len(dofs) : dofs[i] = dof) - 1]
        ELSE Zero]

\* a variant whose catch block swallows the error and leaves d_global at zero
solveWith_swallowed(K_ff_inv, F_f, dofs) ==
    IF K_ff_inv.threw THEN Return(zerosVec(totalDOF))
    ELSE Return(scatter(multiplyVec(K_ff_inv.value, F_f, Len(dofs)), dofs))

\* the try block of step 4: any throw inside it is rethrown as the instability error
solveWith(K_ff_inv, F_f, dofs) ==
    IF K_ff_inv.threw THEN Throw("Error", UnstableMessage, "structure")
    ELSE Return(scatter(multiplyVec(K_ff_inv.value, F_f, Len(dofs)), dofs))

solveFree(Kin, Fin, dofs) ==
    solveWith(inv(subsetMatrix(Kin, dofs), Len(dofs)), subsetVector(Fin, dofs), dofs)

(***************************************************************************)
(* 4.4 Result extractor.                                                   *)
(***************************************************************************)
numPoints == 50

\* this.loads.filter(l => l.memberId === id)
loadsOf(id) == SelectSeq(loads, LAMBDA l : l.memberId = id)

\* d_member_global: d_global at startIdx, startIdx + 1, startIdx + 2, endIdx, ...
memberDisplacementsAt(d, startIdx, endIdx) ==
    [i \in 0..5 |-> IF i < 3 THEN d[startIdx + i] ELSE d[endIdx + (i - 3)]]

memberDisplacements(d, startNode, endNode) ==
    memberDisplacementsAt(d, dofGet(startNode.id, "x"), dofGet(endNode.id, "x"))

\* f_fixed_global: the sum of the global fixed-end forces of the loads ls[k..]
RECURSIVE fixedEndSum(_, _, _, _, _)
fixedEndSum(ls, k, member, startNode, endNode) ==
    IF k > Len(ls) THEN zerosVec(6)
    ELSE addVec(getGlobalFixedEndForces(member, ls[k], startNode, endNode).value,
                fixedEndSum(ls, k + 1, member, startNode, endNode))

\* f_global = k_global * d_member_global + f_fixed_global
memberGlobalForces(d, member, startNode, endNode) ==
    addVec(multiplyVec(getMemberGlobalStiffnessMatrix(member, startNode, endNode).value,
                       memberDisplacements(d, startNode, endNode), 6),
           fixedEndSum(loadsOf(member.id), 1, member, startNode, endNode))

\* Array.from(evaluationPoints).sort((a, b) => a - b)
RECURSIVE sortPoints(_)
leastOf(S) == CHOOSE x \in S : \A y \in S : ~RLess(y, x)

sortFrom(S, least) == <<least>> \o sortPoints(S \ {least})

sortPoints(S) == IF S = {} THEN <<>> ELSE sortFrom(S, leastOf(S))

\* a variant that adds every load position, inside the span or not
evaluationPoints_unfiltered(L, ls) ==
    {Norm(i * L, numPoints) : i \in 0..numPoints} \cup {R(ls[k].position) : k \in 1..Len(ls)}

\* the set evaluationPoints: the grid (i / numPoints) * L and the load positions in [0, L]
evaluationPoints(L, ls) ==
    {Norm(i * L, numPoints) : i \in 0..numPoints}
        \cup {R(ls[k].position) : k \in {j \in 1..Len(ls) : ls[j].position >= 0 /\ ls[j].position <= L}}

\* what one load past its position adds to V, to M and to loadTerms
loadTerm(Py_local, t, kind) ==
    CASE kind = "V" -> Py_local
      [] kind = "M" -> RMul(Py_local, t)
      [] kind = "v" -> RMul(RDiv(Py_local, R(6)), RMul(t, RMul(t, t)))

\* a variant that also counts a load standing exactly at x (x >= a)
RECURSIVE loadSum_inclusive(_, _, _, _, _)
loadSum_inclusive(ls, k, x, c, kind) ==
    IF k > Len(ls) THEN Zero
    ELSE RAdd(IF ~RLess(x, R(ls[k].position))
              THEN loadTerm(RMul(R(ls[k].magnitude), c), RSub(x, R(ls[k].position)), kind)
              ELSE Zero,
              loadSum_inclusive(ls, k + 1, x, c, kind))

\* the forEach over the member's loads with the test x > a, from load k on
RECURSIVE loadSum(_, _, _, _, _)
loadSum(ls, k, x, c, kind) ==
    IF k > Len(ls) THEN Zero
    ELSE RAdd(IF RLess(R(ls[k].position), x)
              THEN loadTerm(RMul(R(ls[k].magnitude), c), RSub(x, R(ls[k].position)), kind)
              ELSE Zero,
              loadSum(ls, k + 1, x, c, kind))

\* term1 + term2 + loadTerms at x
bendingAt(x, M_start, V_start, ls, c) ==
    RAdd(RAdd(RDiv(RMul(M_start, RMul(x, x)), R(2)),
              RDiv(RMul(V_start, RMul(x, RMul(x, x))), R(6))),
         loadSum(ls, 1, x, c, "v"))

\* theta_start: th1, or back-solved from the end deflections when the start is pinned
thetaStart(member, L, c, ls, f_local, d_local) ==
    IF member.startRelease = "pinned" THEN
        RDiv(RSub(RSub(d_local[4], d_local[1]),
                  RDiv(bendingAt(R(L), RNeg(f_local[2]), f_local[1], ls, c),
                       R(member.E * member.I))),
             R(L))
    ELSE d_local[2]

shearAt(x, f_local, ls, c) == RAdd(f_local[1], loadSum(ls, 1, x, c, "V"))

momentAt(x, f_local, ls, c) ==
    RAdd(RAdd(RNeg(f_local[2]), RMul(f_local[1], x)), loadSum(ls, 1, x, c, "M"))

displacementAt(x, f_local, ls, c, EI, theta_start, v1) ==
    RAdd(RAdd(RDiv(bendingAt(x, RNeg(f_local[2]), f_local[1], ls, c), R(EI)),
              RMul(theta_start, x)),
         v1)

\* diagrams[member.id]
diagramOf(sortedPoints, f_local, ls, c, EI, theta_start, v1) ==
    [x            |-> sortedPoints,
     shear        |-> [k \in 1..Len(sortedPoints) |-> shearAt(sortedPoints[k], f_local, ls, c)],
     moment       |-> [k \in 1..Len(sortedPoints) |-> momentAt(sortedPoints[k], f_local, ls, c)],
     displacement |-> [k \in 1..Len(sortedPoints) |->
                          displacementAt(sortedPoints[k], f_local, ls, c, EI, theta_start, v1)]]

\* memberForces[member.id]
memberForcesOf(f_local) ==
    [axial       |-> f_local[0],
     shearStart  |-> f_local[1],
     momentStart |-> f_local[2],
     shearEnd    |-> RNeg(f_local[4]),
     momentEnd   |-> RNeg(f_local[5])]

memberResultsLocal(member, L, c, ls, f_global, f_local, d_local) ==
    [f_global |-> f_global,
     forces   |-> memberForcesOf(f_local),
     diagram  |-> diagramOf(sortPoints(evaluationPoints(L, ls)), f_local, ls, c,
                            member.E * member.I,
                            thetaStart(member, L, c, ls, f_local, d_local), d_local[1])]

memberResultsIn(member, L, c, T, f_global, d_member_global) ==
    memberResultsLocal(member, L, c, loadsOf(member.id), f_global,
                       multiplyVec(T, f_global, 6), multiplyVec(T, d_member_global, 6))

memberResultsOfLength(d, member, startNode, endNode, dx, dy, L) ==
    memberResultsIn(member, L, cosAtan2(dy, dx, L), rotation(Norm(dx, L), Norm(dy, L)),
                    memberGlobalForces(d, member, startNode, endNode),
                    memberDisplacements(d, startNode, endNode))

memberResultsBetween(d, member, startNode, endNode) ==
    memberResultsOfLength(d, member, startNode, endNode,
                          endNode.x - startNode.x, endNode.y - startNode.y,
                          memberLength(startNode, endNode))

\* one pass of the members.forEach of calculateResults
memberResults(d, member) ==
    memberResultsBetween(d, member, findNode(member.startNodeId), findNode(member.endNodeId))

\* the slice of f_global a connected member adds to the reaction at the node
reactionSlice(f_global, atStart) ==
    IF atStart THEN <<f_global[0], f_global[1], f_global[2]>>
    ELSE <<f_global[3], f_global[4], f_global[5]>>

addSlice(u, v) == <<RAdd(u[1], v[1]), RAdd(u[2], v[2]), RAdd(u[3], v[3])>>

\* <<Rx, Ry, Mz>> summed over connectedMembers, from member k on
RECURSIVE reactionSum(_, _, _)
reactionSum(d, nodeId, k) ==
    IF k > Len(members) THEN <<Zero, Zero, Zero>>
    ELSE IF members[k].startNodeId = nodeId \/ members[k].endNodeId = nodeId THEN
        addSlice(reactionSlice(memberGlobalForces(d, members[k],
                                   findNode(members[k].startNodeId),
                                   findNode(members[k].endNodeId)),
                               members[k].startNodeId = nodeId),
                 reactionSum(d, nodeId, k + 1))
    ELSE reactionSum(d, nodeId, k + 1)

toReaction(sum) == [Fx |-> sum[1], Fy |-> sum[2], Mz |-> sum[3]]

\* reactions[node.id] for a support whose node exists
nodeReaction(d, nodeId) == toReaction(reactionSum(d, nodeId, 1))

\* nodeDisplacements[node.id] of the node at list index i (0-based)
nodeDisplacement(d, i) == [dx |-> d[i * 3], dy |-> d[i * 3 + 1], rotation |-> d[i * 3 + 2]]

\* a variant that reports a reaction for every support, its node found or not
resultTables_everySupport(d, perMember) ==
    [nodeDisplacements |->
         [id \in {nodes[i].id : i \in 1..Len(nodes)} |->
             nodeDisplacement(d, lastWith(nodes, id) - 1)],
     memberForces |-> [id \in DOMAIN perMember |-> perMember[id].forces],
     diagrams     |-> [id \in DOMAIN perMember |-> perMember[id].diagram],
     reactions    |->
         [id \in {supports[k].nodeId : k \in 1..Len(supports)} |-> nodeReaction(d, id)]]

resultTables(d, perMember) ==
    [nodeDisplacements |->
         [id \in {nodes[i].id : i \in 1..Len(nodes)} |->
             nodeDisplacement(d, lastWith(nodes, id) - 1)],
     memberForces |-> [id \in DOMAIN perMember |-> perMember[id].forces],
     diagrams     |-> [id \in DOMAIN perMember |-> perMember[id].diagram],
     reactions    |->
         [id \in {supports[k].nodeId : k \in {j \in 1..Len(supports) :
                                               findNode(supports[j].nodeId) # undefinedNode}} |->
             nodeReaction(d, id)]]

calculateResults(d) ==
    resultTables(d, [id \in {members[k].id : k \in 1..Len(members)} |->
                        memberResults(d, members[lastWith(members, id)])])

\* the table {} of a result
emptyTable == [id \in {} |-> Zero]

\* the literal returned by line 32
emptyResult ==
    [nodeDisplacements |-> emptyTable, memberForces |-> emptyTable, diagrams |-> emptyTable]

(***************************************************************************)
(* Bounds and input collections.                                           *)
(***************************************************************************)
MaxNodes    == 2
MaxMembers  == 2
MaxSupports == 2
MaxLoads    == 1
MaxSolves   == 2

NodeName   == <<"n1", "n2", "n3", "n4">>
MemberName == <<"m1", "m2", "m3", "m4">>
LoadName   == <<"l1", "l2", "l3">>

\* Node positions; every distance between two of them is an integer.
Points == {<<0, 0>>, <<4, 0>>, <<4, 3>>}
PointsOnAxis == {<<0, 0>>, <<4, 0>>}

Node(i, p) == [id |-> NodeName[i], x |-> p[1], y |-> p[2]]

Member(i, ends, startRelease, endRelease) ==
    [id |-> MemberName[i], startNodeId |-> ends[1], endNodeId |-> ends[2],
     startRelease |-> startRelease, endRelease |-> endRelease, E |-> 2, I |-> 3, A |-> 1]

Support(s) == [nodeId |-> s[1], type |-> s[2], angle |-> s[3]]

Load(i, l) == [id |-> LoadName[i], memberId |-> l[1], magnitude |-> l[2], position |-> l[3]]

SeqsUpTo(S, n) == UNION {[1..k -> S] : k \in 0..n}

\* Collections with references that do not resolve ("nX", "mX") and zero-length members.
NodeLists == {[i \in DOMAIN ps |-> Node(i, ps[i])] : ps \in SeqsUpTo(PointsOnAxis, MaxNodes)}

MemberEnds == {<<"n1", "n2">>, <<"n1", "n1">>, <<"n1", "nX">>}

MemberLists ==
    {[i \in DOMAIN es |-> Member(i, es[i], "fixed", "fixed")] : es \in SeqsUpTo(MemberEnds, MaxMembers)}

SupportChoices == {<<"n1", "fixed", 0>>, <<"nX", "pin", 0>>}

SupportLists == {[i \in DOMAIN ss |-> Support(ss[i])] : ss \in SeqsUpTo(SupportChoices, MaxSupports)}

LoadChoices == {<<"m1", -10, 2>>, <<"mX", -10, 2>>}

LoadLists == {[i \in DOMAIN ls |-> Load(i, ls[i])] : ls \in SeqsUpTo(LoadChoices, MaxLoads)}

\* Frames whose references all resolve: one member between two nodes, every release
\* combination, every support type, rollers at two angles.
Releases == {"fixed", "pinned"}

FrameNodeLists == {<<>>} \cup {<<Node(1, <<0, 0>>), Node(2, p)>> : p \in Points \ {<<0, 0>>}}

FrameMemberLists ==
    {<<>>} \cup {<<Member(1, <<"n1", "n2">>, r[1], r[2])>> : r \in Releases \X Releases}

FrameSupportStart == {<<>>, <<Support(<<"n1", "fixed", 0>>)>>, <<Support(<<"n1", "pin", 0>>)>>,
                      <<Support(<<"n1", "roller", 0>>)>>}

FrameSupportEnd == {<<>>, <<Support(<<"n2", "pin", 0>>)>>, <<Support(<<"n2", "roller", 0>>)>>,
                    <<Support(<<"n2", "roller", 90>>)>>}

FrameSupportLists == {s[1] \o s[2] : s \in FrameSupportStart \X FrameSupportEnd}

FrameLoadLists == {<<>>, <<Load(1, <<"m1", -10, 2>>)>>}

\* Beams: one horizontal member of length 4 drawn left to right or right to left,
\* under the support sets of the textbook cases, and two collinear members of equal
\* length hinged at the node they share, fixed at both outer nodes.
MaxBeamLoads == 2

BeamPositions == {0, 1, 2, 4}

BeamNodeLists ==
    {<<Node(1, p[1]), Node(2, p[2])>> : p \in {<< <<0, 0>>, <<4, 0>> >>, << <<4, 0>>, <<0, 0>> >>}}

BeamMemberLists == {<<Member(1, <<"n1", "n2">>, "fixed", "fixed")>>}

BeamSupportLists ==
    {<<Support(<<"n1", "pin", 0>>), Support(<<"n2", "roller", 0>>)>>,
     <<Support(<<"n1", "fixed", 0>>)>>,
     <<Support(<<"n1", "fixed", 0>>), Support(<<"n2", "fixed", 0>>)>>,
     <<Support(<<"n1", "fixed", 0>>), Support(<<"n2", "roller", 0>>)>>}

HingeNodeLists ==
    {<<Node(1, p[1]), Node(2, p[2]), Node(3, p[3])>> :
        p \in {<< <<0, 0>>, <<4, 0>>, <<8, 0>> >>,
               << <<8, 0>>, <<4, 0>>, <<0, 0>> >>,
               << <<0, 0>>, <<4, 3>>, <<8, 6>> >>}}

HingeMemberLists ==
    {<<Member(1, <<"n1", "n2">>, "fixed", "pinned"), Member(2, <<"n2", "n3">>, "pinned", "fixed")>>}

HingeSupportLists == {<<Support(<<"n1", "fixed", 0>>), Support(<<"n3", "fixed", 0>>)>>}

BeamLoadLists(memberIds) ==
    {[i \in DOMAIN ls |-> Load(i, <<ls[i][1], -10, ls[i][2]>>)] :
        ls \in SeqsUpTo(memberIds \X BeamPositions, MaxBeamLoads)}

\* Spans: one member of length 4 or 5 in every orientation (left to right, right
\* to left, vertical, inclined) and every release combination, under the support
\* sets of the beams and up to MaxSpanLoads loads at, inside and beyond its ends.
MaxSpanLoads == 2

SpanPositions == {0, 1, 4, 5}

SpanNodeLists ==
    {<<Node(1, p[1]), Node(2, p[2])>> :
        p \in {<< <<0, 0>>, <<4, 0>> >>, << <<4, 0>>, <<0, 0>> >>,
               << <<0, 0>>, <<0, 4>> >>, << <<0, 0>>, <<4, 3>> >>}}

SpanMemberLists == {<<Member(1, <<"n1", "n2">>, r[1], r[2])>> : r \in Releases \X Releases}

SpanLoadLists ==
    {[i \in DOMAIN ls |-> Load(i, <<"m1", -10, ls[i]>>)] : ls \in SeqsUpTo(SpanPositions, MaxSpanLoads)}

(***************************************************************************)
(* The solver as a state machine.                                          *)
(***************************************************************************)
\* a local of solve() that has not been assigned yet
unassigned == <<>>

\* new StructuralSolver(ns, ms, ss, ls): the state once the constructor has returned
Constructed(ns, ms, ss, ls) ==
    /\ nodes = ns
    /\ members = ms
    /\ supports = ss
    /\ loads = ls
    /\ dofMap = initializeDOF(ns)
    /\ totalDOF = Len(ns) * 3
    /\ pc = "idle"
    /\ K = unassigned
    /\ F = unassigned
    /\ constrainedDOFs = unassigned
    /\ finalFreeDOFs = unassigned
    /\ d_global = unassigned
    /\ outcomes = <<>>

Init ==
    \E ns \in NodeLists, ms \in MemberLists, ss \in SupportLists, ls \in LoadLists :
        Constructed(ns, ms, ss, ls)

InitFrames ==
    \E ns \in FrameNodeLists, ms \in FrameMemberLists, ss \in FrameSupportLists,
       ls \in FrameLoadLists :
        Constructed(ns, ms, ss, ls)

InitSpans ==
    \/ Constructed(<<>>, <<>>, <<>>, <<>>)
    \/ \E ns \in SpanNodeLists, ms \in SpanMemberLists, ss \in BeamSupportLists,
          ls \in SpanLoadLists :
           Constructed(ns, ms, ss, ls)

InitBeams ==
    \/ Constructed(<<>>, <<>>, <<>>, <<>>)
    \/ \E ns \in BeamNodeLists, ms \in BeamMemberLists, ss \in BeamSupportLists,
          ls \in BeamLoadLists({"m1"}) :
           Constructed(ns, ms, ss, ls)
    \/ \E ns \in HingeNodeLists, ms \in HingeMemberLists, ss \in HingeSupportLists,
          ls \in BeamLoadLists({"m1", "m2"}) :
           Constructed(ns, ms, ss, ls)

\* solve() ends: its outcome is recorded and no call is running
Complete(outcome) ==
    /\ outcomes' = Append(outcomes, outcome)
    /\ pc' = "idle"

\* a variant that keeps the accumulator of the previous call
freshK_reused == IF K = unassigned THEN zeros(totalDOF, totalDOF) ELSE K

\* math.zeros(this.totalDOF, this.totalDOF, 'sparse') and math.zeros(this.totalDOF, 1)
freshK == zeros(totalDOF, totalDOF)

\* a variant that keeps the load vector of the previous call
freshF_reused == IF F = unassigned THEN zerosVec(totalDOF) ELSE F

freshF == zerosVec(totalDOF)

\* line 32: solve() on an empty node collection
SolveEmpty ==
    /\ pc = "idle"
    /\ Len(outcomes) < MaxSolves
    /\ Len(nodes) = 0
    /\ Complete(Return(emptyResult))
    /\ UNCHANGED <<inputs, fields, locals>>

\* step 1: a call of solve() starts and assembles K
AssembleStiffness ==
    /\ pc = "idle"
    /\ Len(outcomes) < MaxSolves
    /\ Len(nodes) # 0
    /\ \E r \in {assembleStiffness(freshK, 1)} :
        IF r.threw
        THEN Complete(r) /\ UNCHANGED K
        ELSE K' = r.value /\ pc' = "assembleLoads" /\ UNCHANGED outcomes
    /\ UNCHANGED <<inputs, fields, F, constrainedDOFs, finalFreeDOFs, d_global>>

\* step 2: F
AssembleLoads ==
    /\ pc = "assembleLoads"
    /\ \E r \in {assembleLoads(freshF, 1)} :
        IF r.threw
        THEN Complete(r) /\ UNCHANGED F
        ELSE F' = r.value /\ pc' = "applyBoundaryConditions" /\ UNCHANGED outcomes
    /\ UNCHANGED <<inputs, fields, K, constrainedDOFs, finalFreeDOFs, d_global>>

\* step 3: constrainedDOFs and finalFreeDOFs
ApplyBoundaryConditions ==
    /\ pc = "applyBoundaryConditions"
    /\ constrainedDOFs' = constrain(<<>>, 1)
    /\ finalFreeDOFs' = filterFree(constrainedDOFs', 0)
    /\ pc' = "stabilize"
    /\ UNCHANGED <<inputs, fields, K, F, d_global, outcomes>>

\* the loop of lines 119-123
Stabilize ==
    /\ pc = "stabilize"
    /\ K' = stabilize(K)
    /\ pc' = "solveDisplacements"
    /\ UNCHANGED <<inputs, fields, F, constrainedDOFs, finalFreeDOFs, d_global, outcomes>>

\* step 4: d_global
SolveDisplacements ==
    /\ pc = "solveDisplacements"
    /\ IF Len(finalFreeDOFs) > 0
       THEN \E r \in {solveFree(K, F, finalFreeDOFs)} :
               IF r.threw
               THEN Complete(r) /\ UNCHANGED d_global
               ELSE d_global' = r.value /\ pc' = "calculateResults" /\ UNCHANGED outcomes
       ELSE d_global' = zerosVec(totalDOF) /\ pc' = "calculateResults" /\ UNCHANGED outcomes
    /\ UNCHANGED <<inputs, fields, K, F, constrainedDOFs, finalFreeDOFs>>

\* return this.calculateResults(d_global)
CalculateResults ==
    /\ pc = "calculateResults"
    /\ Complete(Return(calculateResults(d_global)))
    /\ UNCHANGED <<inputs, fields, locals>>

Next ==
    \/ SolveEmpty
    \/ AssembleStiffness
    \/ AssembleLoads
    \/ ApplyBoundaryConditions
    \/ Stabilize
    \/ SolveDisplacements
    \/ CalculateResults

Spec == Init /\ [][Next]_vars

SpecFrames == InitFrames /\ [][Next]_vars

SpecBeams == InitBeams /\ [][Next]_vars

SpecSpans == InitSpans /\ [][Next]_vars

(***************************************************************************)
(* Vocabulary of the properties.                                           *)
(***************************************************************************)
Range(seq) == {seq[k] : k \in 1..Len(seq)}

\* the fault of a singular system, and every other fault
SingularityFault(o) == o.threw /\ o.error.message = UnstableMessage

ConfigurationFault(o) == o.threw /\ o.error.message # UnstableMessage

HasNode(id) == \E i \in 1..Len(nodes) : nodes[i].id = id

HasMember(id) == \E i \in 1..Len(members) : members[i].id = id

MissingNode(m) == ~HasNode(m.startNodeId) \/ ~HasNode(m.endNodeId)

ZeroLength(m) ==
    /\ ~MissingNode(m)
    /\ findNode(m.startNodeId).x = findNode(m.endNodeId).x
    /\ findNode(m.startNodeId).y = findNode(m.endNodeId).y

InvalidMember(m) == MissingNode(m) \/ ZeroLength(m)

\* the first member in list order that the formulator rejects, and the fault it raises
FirstInvalid ==
    CHOOSE i \in 1..Len(members) :
        InvalidMember(members[i]) /\ \A j \in 1..(i - 1) : ~InvalidMember(members[j])

FirstInvalidFault ==
    Throw("Error",
          IF ZeroLength(members[FirstInvalid]) THEN LengthZeroMessage ELSE MissingNodesMessage,
          members[FirstInvalid].id)

DanglingSupport == \E k \in 1..Len(supports) : ~HasNode(supports[k].nodeId)

DanglingLoad == \E k \in 1..Len(loads) : ~HasMember(loads[k].memberId)

\* a solve() call has applied the boundary conditions and nothing has replaced them since
BoundaryConditionsApplied ==
    \/ pc \in {"stabilize", "solveDisplacements", "calculateResults"}
    \/ pc = "idle" /\ Len(nodes) # 0 /\ Len(outcomes) > 0 /\ ~outcomes[Len(outcomes)].threw

\* the determinant, by expansion along the first row
Minor(A, n, col) ==
    [i \in 0..(n - 2) |-> [j \in 0..(n - 2) |-> A[i + 1][IF j < col THEN j ELSE j + 1]]]

RECURSIVE Det(_, _)
RECURSIVE DetFrom(_, _, _)
DetFrom(A, n, col) ==
    IF col >= n THEN Zero
    ELSE IF A[0][col][1] = 0 THEN DetFrom(A, n, col + 1)
    ELSE RAdd(RMul(IF col % 2 = 0 THEN A[0][col] ELSE RNeg(A[0][col]),
                   Det(Minor(A, n, col), n - 1)),
              DetFrom(A, n, col + 1))

Det(A, n) == IF n = 0 THEN One ELSE IF n = 1 THEN A[0][0] ELSE DetFrom(A, n, 0)

Singular(A, n) == Det(A, n)[1] = 0

\* the offsets 0 (x), 1 (y), 2 (rotation) a support type holds at zero
HeldOffsets(type) ==
    CASE type = "pin" -> {0, 1}
      [] type = "fixed" -> {0, 1, 2}
      [] type = "roller" -> {1}
      [] OTHER -> {}

\* the unknowns 3(i-1) + offset that some support on node i holds at zero
HeldUnknowns ==
    {u \in 0..(3 * Len(nodes) - 1) :
        \E k \in 1..Len(supports) :
            /\ supports[k].nodeId = nodes[(u \div 3) + 1].id
            /\ (u % 3) \in HeldOffsets(supports[k].type)}

\* the displacement a result reports for unknown u
ReportedDisplacement(result, u) ==
    CASE u % 3 = 0 -> result.nodeDisplacements[nodes[(u \div 3) + 1].id].dx
      [] u % 3 = 1 -> result.nodeDisplacements[nodes[(u \div 3) + 1].id].dy
      [] u % 3 = 2 -> result.nodeDisplacements[nodes[(u \div 3) + 1].id].rotation

\* a free translational unknown, of a node with a member attached, that no member stiffens
Attached(i) ==
    \E k \in 1..Len(members) :
        members[k].startNodeId = nodes[i].id \/ members[k].endNodeId = nodes[i].id

UnstiffenedTranslation(Kassembled) ==
    \E i \in 1..Len(nodes), off \in {0, 1} :
        /\ Attached(i)
        /\ 3 * (i - 1) + off \notin HeldUnknowns
        /\ Kassembled[3 * (i - 1) + off][3 * (i - 1) + off][1] = 0

(***************************************************************************)
(* C1.  For N nodes with distinct ids, construction yields totalDOF = 3N   *)
(* and a lookup that sends the x, y and rotation unknowns of the node at   *)
(* list index i to 3i, 3i+1 and 3i+2; the lookup is injective and every    *)
(* value lies in [0, 3N).                                                  *)
(***************************************************************************)
DistinctIds == \A i, j \in 1..Len(nodes) : nodes[i].id = nodes[j].id => i = j

C1_DofIndexing ==
    DistinctIds =>
        /\ totalDOF = 3 * Len(nodes)
        /\ DOMAIN dofMap = {<<nodes[i].id, k>> : i \in 1..Len(nodes), k \in {"x", "y", "r"}}
        /\ \A i \in 1..Len(nodes) :
               /\ dofMap[<<nodes[i].id, "x">>] = 3 * (i - 1)
               /\ dofMap[<<nodes[i].id, "y">>] = 3 * (i - 1) + 1
               /\ dofMap[<<nodes[i].id, "r">>] = 3 * (i - 1) + 2
        /\ \A a, b \in DOMAIN dofMap : dofMap[a] = dofMap[b] => a = b
        /\ \A a \in DOMAIN dofMap : dofMap[a] >= 0 /\ dofMap[a] < 3 * Len(nodes)

C1_Witness ==
    /\ Len(nodes) = MaxNodes
    /\ DistinctIds
    /\ dofMap[<<nodes[Len(nodes)].id, "r">>] = 3 * Len(nodes) - 1

(***************************************************************************)
(* C2.  solve() on an empty node collection raises no fault and returns a  *)
(* result in which all four tables (nodeDisplacements, memberForces,       *)
(* diagrams, reactions) are present and empty.                             *)
(***************************************************************************)
C2_EmptyResultHasFourTables ==
    Len(nodes) = 0 =>
        \A k \in 1..Len(outcomes) :
            /\ ~outcomes[k].threw
            /\ DOMAIN outcomes[k].value =
                   {"nodeDisplacements", "memberForces", "diagrams", "reactions"}
            /\ \A t \in DOMAIN outcomes[k].value : DOMAIN outcomes[k].value[t] = {}

(***************************************************************************)
(* C3.  As claimed: if any member has length zero, every solve() aborts    *)
(* with a configuration fault naming that member, wherever the member is   *)
(* in the list.                                                            *)
(***************************************************************************)
C3_NamesEveryZeroLengthMember ==
    \A i \in 1..Len(members) :
        ZeroLength(members[i]) =>
            \A k \in 1..Len(outcomes) :
                /\ ConfigurationFault(outcomes[k])
                /\ outcomes[k].error.about = members[i].id

(***************************************************************************)
(* C3, amended.  If any member has length zero, solve() stops in the       *)
(* stiffness assembly with the 'Invalid member' fault of the first invalid *)
(* member in list order (zero length or missing node): it names the        *)
(* zero-length member when no earlier member is invalid.                   *)
(***************************************************************************)
C3_ZeroLengthAborts ==
    (\E i \in 1..Len(members) : ZeroLength(members[i])) =>
        /\ pc = "idle"
        /\ \A k \in 1..Len(outcomes) :
               /\ outcomes[k] = FirstInvalidFault
               /\ ConfigurationFault(outcomes[k])

C3_Witness ==
    /\ Len(members) = 2
    /\ ~InvalidMember(members[1])
    /\ ZeroLength(members[2])
    /\ Len(outcomes) > 0
    /\ outcomes[1] = Throw("Error", LengthZeroMessage, members[2].id)

(***************************************************************************)
(* C4.  As claimed: if any member references a node that is not in the     *)
(* non-empty node collection, every solve() aborts with the fault          *)
(* 'Invalid member ... Missing node(s)'.                                   *)
(***************************************************************************)
C4_AlwaysMissingNodesMessage ==
    (Len(nodes) # 0 /\ \E i \in 1..Len(members) : MissingNode(members[i])) =>
        \A k \in 1..Len(outcomes) :
            /\ outcomes[k].threw
            /\ outcomes[k].error.message = MissingNodesMessage

(***************************************************************************)
(* C4, amended.  If any member references a missing node (node collection  *)
(* non-empty), solve() stops in the stiffness assembly with the 'Invalid   *)
(* member' fault of the first invalid member in list order: 'Missing       *)
(* node(s)' unless an earlier member has zero length, then 'Length is      *)
(* zero.'.                                                                 *)
(***************************************************************************)
C4_MissingNodeAborts ==
    (Len(nodes) # 0 /\ \E i \in 1..Len(members) : MissingNode(members[i])) =>
        /\ pc = "idle"
        /\ \A k \in 1..Len(outcomes) :
               /\ outcomes[k].threw
               /\ outcomes[k].error.name = "Error"
               /\ outcomes[k].error.about = members[FirstInvalid].id
               /\ outcomes[k].error.message =
                      IF MissingNode(members[FirstInvalid])
                      THEN MissingNodesMessage ELSE LengthZeroMessage

C4_Witness ==
    /\ Len(nodes) # 0
    /\ Len(members) = 2
    /\ ~InvalidMember(members[1])
    /\ MissingNode(members[2])
    /\ Len(outcomes) > 0
    /\ outcomes[1] = Throw("Error", MissingNodesMessage, members[2].id)

(***************************************************************************)
(* C5.  If any support references a node that is not in the (non-empty)    *)
(* node collection, every solve() aborts with a configuration fault; the   *)
(* support is never silently ignored.                                      *)
(***************************************************************************)
C5_DanglingSupportFaults ==
    (Len(nodes) # 0 /\ DanglingSupport) =>
        \A k \in 1..Len(outcomes) : ConfigurationFault(outcomes[k])

(***************************************************************************)
(* C6.  As claimed: if any load references a member that is not in the     *)
(* member collection, every solve() aborts with a fault other than the     *)
(* singularity fault.                                                      *)
(***************************************************************************)
C6_DanglingLoadAlwaysFaults ==
    DanglingLoad => \A k \in 1..Len(outcomes) : ConfigurationFault(outcomes[k])

(***************************************************************************)
(* C6, amended.  On a non-empty node collection, if any load references a  *)
(* missing member, solve() stops no later than the load assembly and       *)
(* throws: the 'Invalid member' fault of an invalid member, or else the    *)
(* TypeError of reading the missing member; never the singularity fault,   *)
(* never a result.                                                         *)
(***************************************************************************)
C6_DanglingLoadAborts ==
    (Len(nodes) # 0 /\ DanglingLoad) =>
        /\ pc \in {"idle", "assembleLoads"}
        /\ \A k \in 1..Len(outcomes) :
               /\ ConfigurationFault(outcomes[k])
               /\ IF \E i \in 1..Len(members) : InvalidMember(members[i])
                  THEN outcomes[k] = FirstInvalidFault
                  ELSE outcomes[k].error.name = "TypeError"

C6_Witness ==
    /\ Len(members) > 0
    /\ \A i \in 1..Len(members) : ~InvalidMember(members[i])
    /\ Len(loads) = 1
    /\ ~HasMember(loads[1].memberId)
    /\ Len(outcomes) > 0
    /\ outcomes[1] = Throw("TypeError", UndefinedReadMessage, loads[1].id)

C8_NoMaskedRigidBodyMotion ==
    \A k \in 1..Len(outcomes) :
        (Len(nodes) # 0 /\ ~outcomes[k].threw) =>
            ~UnstiffenedTranslation(assembleStiffness(freshK, 1).value)

(***************************************************************************)
(* C9.  The constrained unknowns are exactly x, y for 'pin'; x, y and      *)
(* rotation for 'fixed'; y for 'roller' whatever its angle.  Every         *)
(* returned result reports displacement 0 for each of them, and every      *)
(* other unknown is in the free set that is solved for.                    *)
(***************************************************************************)
C9_BoundaryConditions ==
    /\ BoundaryConditionsApplied =>
           /\ Range(constrainedDOFs) \ {undefinedIndex} = HeldUnknowns
           /\ Range(finalFreeDOFs) = (0..(totalDOF - 1)) \ HeldUnknowns
    /\ \A k \in 1..Len(outcomes) :
           (Len(nodes) # 0 /\ ~outcomes[k].threw) =>
               \A u \in HeldUnknowns : ReportedDisplacement(outcomes[k].value, u) = Zero

C9_Witness ==
    /\ \E k \in 1..Len(supports) : supports[k].type = "roller" /\ supports[k].angle = 90
    /\ \E k \in 1..Len(supports) : supports[k].type = "fixed"
    /\ Len(outcomes) > 0
    /\ ~outcomes[1].threw
    /\ \E u \in 0..(totalDOF - 1) : ReportedDisplacement(outcomes[1].value, u) # Zero
    /\ HeldUnknowns = {0, 1, 2, 4}

(***************************************************************************)
(* C10.  Calls of solve() on unmodified input collections yield identical  *)
(* outcomes: the same fault, or results equal table by table.              *)
(***************************************************************************)
C10_Idempotent ==
    \A j, k \in 1..Len(outcomes) : outcomes[j] = outcomes[k]

C10_Witness ==
    /\ Len(outcomes) = MaxSolves
    /\ ~outcomes[1].threw
    /\ Len(nodes) # 0
    /\ \E u \in 0..(totalDOF - 1) : ReportedDisplacement(outcomes[1].value, u) # Zero
    /\ outcomes[1].value.diagrams = outcomes[MaxSolves].value.diagrams

(***************************************************************************)
(* Vocabulary of the properties on results.                                *)
(***************************************************************************)
\* call k of solve() returned a result for a non-empty node collection
Returned(k) == Len(nodes) # 0 /\ ~outcomes[k].threw

Tolerance == <<1, 10>>

\* |a - b| < 0.1
Near(a, b) == RLess(RAbs(RSub(a, b)), Tolerance)

First(seq) == seq[1]

Last(seq) == seq[Len(seq)]

\* the largest absolute value of a sampled diagram
MaxAbs(seq) ==
    CHOOSE m \in {RAbs(seq[i]) : i \in DOMAIN seq} :
        \A j \in DOMAIN seq : ~RLess(m, RAbs(seq[j]))

\* the cosine of the member's axis: (end.x - start.x) / L
AxisCosine(m) ==
    Norm(findNode(m.endNodeId).x - findNode(m.startNodeId).x,
         memberLength(findNode(m.startNodeId), findNode(m.endNodeId)))

LeftToRight(m) == AxisCosine(m) = One

\* the global vertical component of a load that acts transverse to its member
VerticalComponent(load) == RMul(R(load.magnitude), AxisCosine(findMember(load.memberId)))

AppliedVertical ==
    SumOver(1..Len(loads), [k \in 1..Len(loads) |-> VerticalComponent(loads[k])])

ReactionVertical(result) ==
    SumOver(DOMAIN result.reactions, [id \in DOMAIN result.reactions |-> result.reactions[id].Fy])

(***************************************************************************)
(* C11.  Global vertical equilibrium: in every returned result the         *)
(* reactions Fy summed over the supported nodes and the vertical           *)
(* components of the applied point loads sum to zero.                      *)
(***************************************************************************)
C11_VerticalEquilibrium ==
    \A k \in 1..Len(outcomes) :
        Returned(k) => RAdd(ReactionVertical(outcomes[k].value), AppliedVertical) = Zero

\* two members in a line that meet at a node where both are released
InteriorHinge ==
    /\ Len(members) = 2
    /\ members[1].endNodeId = members[2].startNodeId
    /\ members[1].endRelease = "pinned"
    /\ members[2].startRelease = "pinned"

\* the moments the diagrams of call k show on the two sides of the hinge
HingeMoments(k) ==
    << Last(outcomes[k].value.diagrams[members[1].id].moment),
       First(outcomes[k].value.diagrams[members[2].id].moment) >>

(***************************************************************************)
(* C12.  Interior hinge: for two collinear members pinned at their shared  *)
(* node, under any point loads the moment diagram of the first member is   *)
(* zero at x = L and that of the second member is zero at x = 0, within    *)
(* the tolerance.                                                          *)
(***************************************************************************)
C12_HingeTransmitsNoMoment ==
    \A k \in 1..Len(outcomes) :
        (InteriorHinge /\ Returned(k)) =>
            /\ Near(HingeMoments(k)[1], Zero)
            /\ Near(HingeMoments(k)[2], Zero)

\* one member with both ends rigidly connected, carried by the given support
\* types at its start and at its end node, under one point load
OneMemberBeam(startType, endType) ==
    /\ Len(members) = 1
    /\ members[1].startRelease = "fixed"
    /\ members[1].endRelease = "fixed"
    /\ Len(loads) = 1
    /\ loads[1].memberId = members[1].id
    /\ \A s \in Range(supports) : s.nodeId \in {members[1].startNodeId, members[1].endNodeId}
    /\ {s.type : s \in {t \in Range(supports) : t.nodeId = members[1].startNodeId}} = startType
    /\ {s.type : s \in {t \in Range(supports) : t.nodeId = members[1].endNodeId}} = endType

BeamLength == memberLength(findNode(members[1].startNodeId), findNode(members[1].endNodeId))

\* the downward load P, its position a and the rest of the span b = L - a
BeamP == R(0 - loads[1].magnitude)

BeamA == R(loads[1].position)

BeamB == R(BeamLength - loads[1].position)

BeamEI == R(members[1].E * members[1].I)

CentralLoad == 2 * loads[1].position = BeamLength

\* the diagrams of the beam in the result of call k
BeamDiagram(k) == outcomes[k].value.diagrams[members[1].id]

(***************************************************************************)
(* C13.  Simply supported beam: one horizontal member with both releases   *)
(* fixed, a pin at its start node, a roller at its end node and one        *)
(* downward load P at position a: start shear P*b/L, end shear -P*a/L,     *)
(* start and end moment 0, start and end deflection 0, maximum absolute    *)
(* moment P*a*b/L, all within 0.1.                                         *)
(***************************************************************************)
C13_SimplySupported ==
    \A k \in 1..Len(outcomes) :
        (OneMemberBeam({"pin"}, {"roller"}) /\ Returned(k)) =>
            /\ Near(First(BeamDiagram(k).shear), RDiv(RMul(BeamP, BeamB), R(BeamLength)))
            /\ Near(Last(BeamDiagram(k).shear), RNeg(RDiv(RMul(BeamP, BeamA), R(BeamLength))))
            /\ Near(First(BeamDiagram(k).moment), Zero)
            /\ Near(Last(BeamDiagram(k).moment), Zero)
            /\ Near(First(BeamDiagram(k).displacement), Zero)
            /\ Near(Last(BeamDiagram(k).displacement), Zero)
            /\ Near(MaxAbs(BeamDiagram(k).moment), RDiv(RMul(BeamP, RMul(BeamA, BeamB)), R(BeamLength)))

Cube(n) == n * n * n

(***************************************************************************)
(* C14.  Cantilever: one horizontal member with a fixed support at its     *)
(* start node, no support at its end node and a downward load P exactly    *)
(* at position L: start moment -P*L, end moment 0, start shear and end     *)
(* shear both P, start deflection 0 and free-end deflection                *)
(* -P*L^3/(3*E*I).                                                         *)
(***************************************************************************)
C14_Cantilever ==
    \A k \in 1..Len(outcomes) :
        (OneMemberBeam({"fixed"}, {}) /\ loads[1].position = BeamLength /\ Returned(k)) =>
            /\ First(BeamDiagram(k).moment) = RNeg(RMul(BeamP, R(BeamLength)))
            /\ Last(BeamDiagram(k).moment) = Zero
            /\ First(BeamDiagram(k).shear) = BeamP
            /\ Last(BeamDiagram(k).shear) = BeamP
            /\ First(BeamDiagram(k).displacement) = Zero
            /\ Last(BeamDiagram(k).displacement) =
                   RNeg(RDiv(RMul(BeamP, R(Cube(BeamLength))), RMul(R(3), BeamEI)))

C14_Witness ==
    /\ OneMemberBeam({"fixed"}, {})
    /\ loads[1].position = BeamLength
    /\ LeftToRight(members[1])
    /\ Len(outcomes) = 1
    /\ Returned(1)
    /\ Last(BeamDiagram(1).displacement) = <<-320, 9>>
    /\ First(BeamDiagram(1).moment) = <<-40, 1>>

\* every nodal displacement of the result is zero
NoDisplacement(result) ==
    \A id \in DOMAIN result.nodeDisplacements :
        result.nodeDisplacements[id] = [dx |-> Zero, dy |-> Zero, rotation |-> Zero]

(***************************************************************************)
(* C15.  Fixed-fixed beam: one horizontal member with fixed supports at    *)
(* both nodes and a central downward load P.  No unknown is free, the      *)
(* linear solve is skipped and solve() returns without fault; all nodal    *)
(* displacements are 0, the diagram moments at both ends are -P*L/8, the   *)
(* end shears are +P/2 and -P/2 and the maximum absolute deflection is     *)
(* P*L^3/(192*E*I).                                                        *)
(***************************************************************************)
C15_FixedFixed ==
    (OneMemberBeam({"fixed"}, {"fixed"}) /\ CentralLoad) =>
        /\ pc \in {"stabilize", "solveDisplacements", "calculateResults"} => finalFreeDOFs = <<>>
        /\ \A k \in 1..Len(outcomes) :
               /\ ~outcomes[k].threw
               /\ NoDisplacement(outcomes[k].value)
               /\ First(BeamDiagram(k).moment) = RNeg(RDiv(RMul(BeamP, R(BeamLength)), R(8)))
               /\ Last(BeamDiagram(k).moment) = RNeg(RDiv(RMul(BeamP, R(BeamLength)), R(8)))
               /\ First(BeamDiagram(k).shear) = RDiv(BeamP, R(2))
               /\ Last(BeamDiagram(k).shear) = RNeg(RDiv(BeamP, R(2)))
               /\ MaxAbs(BeamDiagram(k).displacement) =
                      RDiv(RMul(BeamP, R(Cube(BeamLength))), RMul(R(192), BeamEI))

(***************************************************************************)
(* C16.  Propped cantilever: one horizontal member with both releases      *)
(* fixed, a fixed support at its start node, a roller at its end node and  *)
(* a central downward load P: start moment -3*P*L/16, start shear          *)
(* 11*P/16, end shear -5*P/16 and end moment 0, all within 0.1.            *)
(***************************************************************************)
C16_ProppedCantilever ==
    \A k \in 1..Len(outcomes) :
        (OneMemberBeam({"fixed"}, {"roller"}) /\ CentralLoad /\ Returned(k)) =>
            /\ Near(First(BeamDiagram(k).moment), RNeg(RDiv(RMul(R(3), RMul(BeamP, R(BeamLength))), R(16))))
            /\ Near(First(BeamDiagram(k).shear), RDiv(RMul(R(11), BeamP), R(16)))
            /\ Near(Last(BeamDiagram(k).shear), RNeg(RDiv(RMul(R(5), BeamP), R(16))))
            /\ Near(Last(BeamDiagram(k).moment), Zero)

NodeIds == {nodes[i].id : i \in 1..Len(nodes)}

MemberIds == {members[i].id : i \in 1..Len(members)}

\* the ids of the nodes that carry at least one support
SupportedNodeIds == {id \in NodeIds : \E k \in 1..Len(supports) : supports[k].nodeId = id}

(***************************************************************************)
(* C17.  Every result returned for a non-empty node collection has one     *)
(* nodeDisplacements entry per node id, one memberForces entry and one     *)
(* diagrams entry per member id, and one reactions entry per node id that  *)
(* carries at least one support, and none for any other id.                *)
(***************************************************************************)
C17_ResultTables ==
    \A k \in 1..Len(outcomes) :
        Returned(k) =>
            /\ DOMAIN outcomes[k].value.nodeDisplacements = NodeIds
            /\ DOMAIN outcomes[k].value.memberForces = MemberIds
            /\ DOMAIN outcomes[k].value.diagrams = MemberIds
            /\ DOMAIN outcomes[k].value.reactions = SupportedNodeIds

C17_Witness ==
    /\ Len(outcomes) = 1
    /\ Returned(1)
    /\ MemberIds # {}
    /\ SupportedNodeIds # {}
    /\ SupportedNodeIds # NodeIds
    /\ DanglingSupport
    /\ DOMAIN outcomes[1].value.reactions = SupportedNodeIds

\* the phases of solve() in the order of the code
PhaseOrder ==
    <<"idle", "assembleLoads", "applyBoundaryConditions", "stabilize",
      "solveDisplacements", "calculateResults">>

PhaseIndex(p) == CHOOSE i \in 1..Len(PhaseOrder) : PhaseOrder[i] = p

SomeInvalidMember == \E i \in 1..Len(members) : InvalidMember(members[i])

\* the system solveDisplacements is about to solve has a solution
Solvable ==
    finalFreeDOFs = <<>> \/ ~Singular(subsetMatrix(K, finalFreeDOFs), Len(finalFreeDOFs))

(***************************************************************************)
(* C18.  Phase ordering.  Every step of solve() either moves to the next   *)
(* phase or aborts to idle; no phase after the member formulation is       *)
(* entered while a member is zero-length or misses a node; the result      *)
(* extraction is entered only from the linear solve, and only when that    *)
(* solve succeeded; a call ends with a result only out of the result       *)
(* extraction and with a fault, which carries no result, out of every      *)
(* other phase; and with a faulty member the call ends in the first        *)
(* member's configuration fault whatever the supports are, never in the    *)
(* singularity fault.                                                      *)
(***************************************************************************)
C18_PhaseOrdering ==
    [][ /\ pc' = "idle" \/ PhaseIndex(pc') = PhaseIndex(pc) + 1
        /\ pc' # "idle" => ~SomeInvalidMember
        /\ pc' = "calculateResults" => pc = "solveDisplacements" /\ Solvable
        /\ (Len(outcomes') > Len(outcomes) /\ Len(nodes) # 0) =>
               /\ outcomes'[Len(outcomes')].threw <=> pc # "calculateResults"
               /\ SomeInvalidMember =>
                      /\ pc = "idle"
                      /\ outcomes'[Len(outcomes')] = FirstInvalidFault
                      /\ ~SingularityFault(outcomes'[Len(outcomes')])
      ]_vars

\* a faulty member behind a sound one, and no support at all
C18_Witness ==
    /\ Len(nodes) # 0
    /\ Len(supports) = 0
    /\ Len(members) = 2
    /\ ~InvalidMember(members[1])
    /\ InvalidMember(members[2])
    /\ pc = "idle"
    /\ Len(outcomes) = 1
    /\ ConfigurationFault(outcomes[1])
    /\ outcomes[1].error.about = members[2].id

\* |q| < 1e-9, that is q[2] > 10^9 * |q[1]| for the fraction q[1] / q[2]
Negligible(q) == q[1] = 0 \/ (q[2] - 1) \div Abs(q[1]) >= StabilityThresholdInverse

(***************************************************************************)
(* C19.  Regularization changes the assembled stiffness matrix only on     *)
(* the diagonal and only where the absolute value of the entry is below    *)
(* 1e-9, where it writes the dummy value 1.0; every other entry is left    *)
(* as it was, and afterwards no diagonal entry is below the threshold.     *)
(***************************************************************************)
C19_RegularizationFrame ==
    [][ pc = "stabilize" =>
          /\ DOMAIN K' = DOMAIN K
          /\ \A i \in DOMAIN K : DOMAIN K'[i] = DOMAIN K[i]
          /\ \A i \in DOMAIN K : \A j \in DOMAIN K :
                 K'[i][j] = IF i = j /\ Negligible(K[i][i]) THEN One ELSE K[i][j]
          /\ \A i \in DOMAIN K : ~Negligible(K'[i][i])
      ]_vars

\* regularization has replaced one diagonal entry and kept another
C19_Witness ==
    /\ pc = "solveDisplacements"
    /\ \E i \in DOMAIN K :
          /\ assembleStiffness(freshK, 1).value[i][i] = Zero
          /\ K[i][i] = One
    /\ \E i \in DOMAIN K :
          /\ assembleStiffness(freshK, 1).value[i][i] # Zero
          /\ K[i][i] = assembleStiffness(freshK, 1).value[i][i]
    /\ \E i \in DOMAIN K : \E j \in DOMAIN K : i # j /\ K[i][j] # Zero

\* one member from the first node to the second, its stiffness just assembled
OneMemberAssembled ==
    /\ pc = "assembleLoads"
    /\ Len(nodes) = 2
    /\ Len(members) = 1
    /\ members[1].startNodeId = nodes[1].id
    /\ members[1].endNodeId = nodes[2].id

AxisSine(m) ==
    Norm(findNode(m.endNodeId).y - findNode(m.startNodeId).y,
         memberLength(findNode(m.startNodeId), findNode(m.endNodeId)))

\* the assembled matrix of the one member taken back to its local axes: T * K * transpose(T)
LocalOf(Kglobal, m) ==
    multiply(multiply(rotation(AxisCosine(m), AxisSine(m)), Kglobal, 6),
             transpose(rotation(AxisCosine(m), AxisSine(m)), 6), 6)

\* the rotations released at the ends of a member: offset 2 at the start, 5 at the end
ReleasedRotations(m) ==
    {o \in {2, 5} : (o = 2 /\ m.startRelease = "pinned") \/ (o = 5 /\ m.endRelease = "pinned")}

\* the coefficient n*E*I / L^p of a member of length L
Bending(m, n, L, p) == Norm(n * m.E * m.I, IF p = 3 THEN L * L * L ELSE IF p = 2 THEN L * L ELSE L)

\* the entry (i, j) of the condensed local stiffness: axial offsets 0 and 3,
\* transverse offsets 1 and 4, rotations 2 and 5
CondensedEntry(m, L, i, j) ==
    IF i \in {0, 3} \/ j \in {0, 3} THEN
        IF i \in {0, 3} /\ j \in {0, 3}
        THEN (IF i = j THEN Norm(m.E * m.A, L) ELSE RNeg(Norm(m.E * m.A, L)))
        ELSE Zero
    ELSE IF i \in ReleasedRotations(m) \/ j \in ReleasedRotations(m) THEN Zero
    ELSE IF Cardinality(ReleasedRotations(m)) = 2 THEN Zero
    ELSE IF i \in {1, 4} /\ j \in {1, 4} THEN
        IF i = j THEN Bending(m, IF ReleasedRotations(m) = {} THEN 12 ELSE 3, L, 3)
        ELSE RNeg(Bending(m, IF ReleasedRotations(m) = {} THEN 12 ELSE 3, L, 3))
    ELSE IF i \in {2, 5} /\ j \in {2, 5} THEN
        IF i = j THEN Bending(m, IF ReleasedRotations(m) = {} THEN 4 ELSE 3, L, 1)
        ELSE Bending(m, 2, L, 1)
    ELSE IF 1 \in {i, j}
        THEN Bending(m, IF ReleasedRotations(m) = {} THEN 6 ELSE 3, L, 2)
        ELSE RNeg(Bending(m, IF ReleasedRotations(m) = {} THEN 6 ELSE 3, L, 2))

(***************************************************************************)
(* C20.  End-release condensation of the local 6x6 stiffness.  With one    *)
(* end pinned the row and the column of that end's rotation are zero, the  *)
(* remaining bending coefficients are 3EI/L^3, 3EI/L^2 and 3EI/L and the   *)
(* axial terms stay EA/L; with both ends pinned only the axial block       *)
(* +-EA/L is left; with both ends fixed the coefficients are EA/L,         *)
(* 12EI/L^3, 6EI/L^2, 4EI/L and 2EI/L.  Read on the assembled matrix of a  *)
(* structure of one member, taken back to the member's axes.               *)
(***************************************************************************)
C20_ReleaseCondensation ==
    OneMemberAssembled =>
        LocalOf(K, members[1]) =
            [i \in 0..5 |-> [j \in 0..5 |-> CondensedEntry(members[1], BeamLength, i, j)]]

\* an inclined member pinned at its end only
C20_Witness ==
    /\ OneMemberAssembled
    /\ members[1].startRelease = "fixed"
    /\ members[1].endRelease = "pinned"
    /\ BeamLength = 5
    /\ \A j \in 0..5 : LocalOf(K, members[1])[5][j] = Zero /\ LocalOf(K, members[1])[j][5] = Zero
    /\ LocalOf(K, members[1])[2][2] = <<18, 5>>
    /\ LocalOf(K, members[1])[1][2] = <<18, 25>>
    /\ LocalOf(K, members[1])[1][1] = <<18, 125>>
    /\ LocalOf(K, members[1])[0][0] = <<2, 5>>

(***************************************************************************)
(* Vocabulary of the properties on fixed-end forces.                       *)
(***************************************************************************)
\* one member from the first node to the second under one load within its span,
\* the load vector just assembled
OneSpanLoaded ==
    /\ pc = "applyBoundaryConditions"
    /\ Len(nodes) = 2
    /\ Len(members) = 1
    /\ members[1].startNodeId = nodes[1].id
    /\ members[1].endNodeId = nodes[2].id
    /\ Len(loads) = 1
    /\ loads[1].memberId = members[1].id
    /\ loads[1].position >= 0
    /\ loads[1].position <= BeamLength

\* the local fixed-end forces read back from the load vector: T * (-F)
LocalFixedEnd ==
    multiplyVec(rotation(AxisCosine(members[1]), AxisSine(members[1])),
                [i \in 0..5 |-> RNeg(F[i])], 6)

\* the signed load, its distance a from the start and b = L - a
SpanP == R(loads[1].magnitude)

SpanA == R(loads[1].position)

SpanB == R(BeamLength - loads[1].position)

\* the classical fixed-fixed values V_start, M_start, V_end, M_end
ClassicalVStart ==
    RNeg(RDiv(RMul(SpanP, RMul(RMul(SpanB, SpanB), RAdd(RMul(R(3), SpanA), SpanB))),
              R(Cube(BeamLength))))

ClassicalMStart ==
    RNeg(RDiv(RMul(SpanP, RMul(SpanA, RMul(SpanB, SpanB))), R(BeamLength * BeamLength)))

ClassicalVEnd ==
    RNeg(RDiv(RMul(SpanP, RMul(RMul(SpanA, SpanA), RAdd(SpanA, RMul(R(3), SpanB)))),
              R(Cube(BeamLength))))

ClassicalMEnd ==
    RDiv(RMul(SpanP, RMul(RMul(SpanA, SpanA), SpanB)), R(BeamLength * BeamLength))

\* the shears after the release of a moment: start shear raised, end shear lowered
\* by 1.5 * M_rel / L
ShearsAfterRelease(f, M_rel) ==
    /\ f[1] = RAdd(ClassicalVStart, RDiv(RMul(<<3, 2>>, M_rel), R(BeamLength)))
    /\ f[4] = RSub(ClassicalVEnd, RDiv(RMul(<<3, 2>>, M_rel), R(BeamLength)))

PinnedAtStartOnly == members[1].startRelease = "pinned" /\ members[1].endRelease = "fixed"

PinnedAtEndOnly == members[1].startRelease = "fixed" /\ members[1].endRelease = "pinned"

PinnedAtBoth == members[1].startRelease = "pinned" /\ members[1].endRelease = "pinned"

(***************************************************************************)
(* C21.  Fixed-end forces under releases, for a load P at distance a on a  *)
(* member of length L: the local fixed-end moment is zero at every pinned  *)
(* end; with both ends pinned the shears are -P*b/L and -P*a/L; with one   *)
(* end pinned, M_rel being the negated fixed-fixed moment of that end, the *)
(* other end's moment is its fixed-fixed value plus 0.5*M_rel, the start   *)
(* shear is raised by 1.5*M_rel/L and the end shear lowered by as much.    *)
(***************************************************************************)
C21_ReleasedFixedEndForces ==
    OneSpanLoaded =>
        /\ members[1].startRelease = "pinned" => LocalFixedEnd[2] = Zero
        /\ members[1].endRelease = "pinned" => LocalFixedEnd[5] = Zero
        /\ PinnedAtBoth =>
              /\ LocalFixedEnd[1] = RNeg(RDiv(RMul(SpanP, SpanB), R(BeamLength)))
              /\ LocalFixedEnd[4] = RNeg(RDiv(RMul(SpanP, SpanA), R(BeamLength)))
        /\ PinnedAtStartOnly =>
              /\ LocalFixedEnd[5] = RAdd(ClassicalMEnd, RMul(<<1, 2>>, RNeg(ClassicalMStart)))
              /\ ShearsAfterRelease(LocalFixedEnd, RNeg(ClassicalMStart))
        /\ PinnedAtEndOnly =>
              /\ LocalFixedEnd[2] = RAdd(ClassicalMStart, RMul(<<1, 2>>, RNeg(ClassicalMEnd)))
              /\ ShearsAfterRelease(LocalFixedEnd, RNeg(ClassicalMEnd))

\* an inclined member pinned at its start only, the load inside the span
C21_Witness ==
    /\ OneSpanLoaded
    /\ PinnedAtStartOnly
    /\ BeamLength = 5
    /\ loads[1].position = 1
    /\ LocalFixedEnd[2] = Zero
    /\ ClassicalMStart # Zero
    /\ LocalFixedEnd[5] # ClassicalMEnd
    /\ LocalFixedEnd[1] # ClassicalVStart

\* the part of the global fixed-end forces g of a load on member m that acts at
\* offset o (0: x, 1: y, 2: rotation) of the node
FixedEndAt(g, m, nodeId, o) ==
    IF m.startNodeId = nodeId THEN g[o]
    ELSE IF m.endNodeId = nodeId THEN g[3 + o]
    ELSE Zero

\* the global fixed-end forces of the load at list index k
FixedEndOf(k) ==
    getGlobalFixedEndForces(findMember(loads[k].memberId), loads[k],
        findNode(findMember(loads[k].memberId).startNodeId),
        findNode(findMember(loads[k].memberId).endNodeId)).value

\* the sum over all loads of the fixed-end force at offset o of the node at index n
FixedEndTotal(n, o) ==
    SumOver(1..Len(loads),
            [k \in 1..Len(loads) |->
                FixedEndAt(FixedEndOf(k), findMember(loads[k].memberId), nodes[n].id, o)])

(***************************************************************************)
(* C22.  The assembled load vector holds, at each unknown, minus the sum   *)
(* of the global fixed-end-force components of every load whose member     *)
(* touches the unknown's node, and zero at every other unknown.            *)
(***************************************************************************)
C22_LoadVector ==
    F # unassigned =>
        /\ DOMAIN F = 0..(3 * Len(nodes) - 1)
        /\ \A n \in 1..Len(nodes) : \A o \in 0..2 :
               F[3 * (n - 1) + o] = RNeg(FixedEndTotal(n, o))

\* two loads on the two members of a hinge beam meet at the shared node
C22_Witness ==
    /\ F # unassigned
    /\ pc = "applyBoundaryConditions"
    /\ InteriorHinge
    /\ Len(loads) = 2
    /\ loads[1].memberId # loads[2].memberId
    /\ FixedEndAt(FixedEndOf(1), findMember(loads[1].memberId), nodes[2].id, 1) # Zero
    /\ FixedEndAt(FixedEndOf(2), findMember(loads[2].memberId), nodes[2].id, 1) # Zero
    /\ F[4] = RNeg(FixedEndTotal(2, 1))
    /\ F[4] # Zero

(***************************************************************************)
(* Vocabulary of the properties on diagrams.                               *)
(***************************************************************************)
LengthOf(m) == memberLength(findNode(m.startNodeId), findNode(m.endNodeId))

\* the 51 uniform points i * L / 50
UniformPoints(L) == {Norm(i * L, 50) : i \in 0..50}

\* the positions of the loads of member m that lie in [0, L]
LoadPointsWithin(m) ==
    {R(loads[k].position) : k \in {j \in 1..Len(loads) :
        /\ loads[j].memberId = m.id
        /\ loads[j].position >= 0
        /\ loads[j].position <= LengthOf(m)}}

StrictlyIncreasing(seq) == \A i \in 1..(Len(seq) - 1) : RLess(seq[i], seq[i + 1])

Occurrences(seq, v) == Cardinality({i \in 1..Len(seq) : seq[i] = v})

\* the x array of a diagram is the sorted union of the grid and the load points
SampledOn(diagram, m) ==
    /\ Len(diagram.x) > 0
    /\ Range(diagram.x) = UniformPoints(LengthOf(m)) \cup LoadPointsWithin(m)
    /\ StrictlyIncreasing(diagram.x)
    /\ First(diagram.x) = Zero
    /\ Last(diagram.x) = R(LengthOf(m))
    /\ \A v \in LoadPointsWithin(m) : Occurrences(diagram.x, v) = 1
    /\ Len(diagram.shear) = Len(diagram.x)
    /\ Len(diagram.moment) = Len(diagram.x)
    /\ Len(diagram.displacement) = Len(diagram.x)

(***************************************************************************)
(* C23.  For every member the diagram's x array is the union of the 51     *)
(* uniform points i*L/50 and the positions of the member's loads that lie  *)
(* in [0, L]; it is strictly increasing, starts at 0, ends at L, holds     *)
(* every in-range load position exactly once, and the shear, moment and    *)
(* displacement arrays are as long as x.                                   *)
(***************************************************************************)
C23_EvaluationPoints ==
    \A k \in 1..Len(outcomes) :
        Returned(k) =>
            \A i \in 1..Len(members) :
                SampledOn(outcomes[k].value.diagrams[members[i].id], members[i])

\* a load between two grid points, and a load beyond the end of the member
C23_Witness ==
    /\ Len(outcomes) = 1
    /\ Returned(1)
    /\ Len(members) = 1
    /\ Len(loads) = 2
    /\ R(loads[1].position) \notin UniformPoints(LengthOf(members[1]))
    /\ R(loads[1].position) \in LoadPointsWithin(members[1])
    /\ loads[2].position > LengthOf(members[1])
    /\ Len(outcomes[1].value.diagrams[members[1].id].x) = 52
    /\ loads[1].position = 1
    /\ outcomes[1].value.diagrams[members[1].id].x[14] = One

\* the loads of member m whose position is strictly before x
LoadsBefore(m, x) ==
    {k \in 1..Len(loads) : loads[k].memberId = m.id /\ RLess(R(loads[k].position), x)}

\* the local transverse component of a load as the fixed-end forces take it: P itself
TransverseOf(k) == R(loads[k].magnitude)

\* start shear plus the loads before x
ShearFormula(forces, m, x) ==
    RAdd(forces.shearStart,
         SumOver(LoadsBefore(m, x), [k \in LoadsBefore(m, x) |-> TransverseOf(k)]))

\* sign-adjusted start moment plus V_start * x plus P * (x - a) of the loads before x
MomentFormula(forces, m, x) ==
    RAdd(RAdd(RNeg(forces.momentStart), RMul(forces.shearStart, x)),
         SumOver(LoadsBefore(m, x),
                 [k \in LoadsBefore(m, x) |->
                     RMul(TransverseOf(k), RSub(x, R(loads[k].position)))]))

FollowsFormulas(diagram, forces, m) ==
    \A i \in 1..Len(diagram.x) :
        /\ diagram.shear[i] = ShearFormula(forces, m, diagram.x[i])
        /\ diagram.moment[i] = MomentFormula(forces, m, diagram.x[i])

(***************************************************************************)
(* C24.  At every evaluation point x of a member the diagram shear is the  *)
(* local start shear plus the local transverse components of the loads     *)
(* with a < x, and the diagram moment is the sign-adjusted local start     *)
(* moment plus V_start*x plus P_local*(x - a) over the same loads; a load  *)
(* exactly at x adds nothing, and the local transverse component is the    *)
(* one the fixed-end forces use for the load.                              *)
(***************************************************************************)
C24_DiagramFormulas ==
    \A k \in 1..Len(outcomes) :
        Returned(k) =>
            \A i \in 1..Len(members) :
                FollowsFormulas(outcomes[k].value.diagrams[members[i].id],
                                outcomes[k].value.memberForces[members[i].id], members[i])

\* the local transverse translation of a node of member m in a result:
\* -s * dx + c * dy
TransverseTranslation(result, m, nodeId) ==
    RAdd(RMul(RNeg(AxisSine(m)), result.nodeDisplacements[nodeId].dx),
         RMul(AxisCosine(m), result.nodeDisplacements[nodeId].dy))

\* every load lies on its member: 0 <= position <= L
LoadsWithinSpans ==
    \A k \in 1..Len(loads) :
        /\ loads[k].position >= 0
        /\ loads[k].position <= LengthOf(findMember(loads[k].memberId))

(***************************************************************************)
(* C25.  Nodal compatibility of the deflection diagram: for every member   *)
(* of every returned result the displacement diagram at x = 0 equals the   *)
(* start node's local transverse translation v1 and at x = L the end       *)
(* node's local transverse translation v2, whatever the releases (with a   *)
(* pinned start the initial slope is back-solved to that effect), the      *)
(* loads lying on their members.                                           *)
(***************************************************************************)
C25_NodalCompatibility ==
    \A k \in 1..Len(outcomes) :
        (Returned(k) /\ LoadsWithinSpans) =>
            \A i \in 1..Len(members) :
                /\ First(outcomes[k].value.diagrams[members[i].id].displacement) =
                       TransverseTranslation(outcomes[k].value, members[i], members[i].startNodeId)
                /\ Last(outcomes[k].value.diagrams[members[i].id].displacement) =
                       TransverseTranslation(outcomes[k].value, members[i], members[i].endNodeId)

(***************************************************************************)
(* C26.  solve() does not modify its inputs or the solver's index: over    *)
(* every step of every call, returning or faulting, the node, member,      *)
(* support and load collections, dofMap and totalDOF stay as they are; a   *)
(* result or fault already handed out is not touched by a later call, and  *)
(* each call builds its stiffness matrix and its load vector from zero,    *)
(* sharing no working matrix with the call before it.                      *)
(***************************************************************************)
C26_InputsUntouched ==
    [][ /\ nodes' = nodes
        /\ members' = members
        /\ supports' = supports
        /\ loads' = loads
        /\ dofMap' = dofMap
        /\ totalDOF' = totalDOF
        /\ Len(outcomes') >= Len(outcomes)
        /\ \A k \in 1..Len(outcomes) : outcomes'[k] = outcomes[k]
        /\ (pc = "idle" /\ pc' = "assembleLoads") =>
               K' = assembleStiffness(zeros(3 * Len(nodes), 3 * Len(nodes)), 1).value
        /\ (pc = "assembleLoads" /\ pc' = "applyBoundaryConditions") =>
               F' = assembleLoads(zerosVec(3 * Len(nodes)), 1).value
      ]_vars

\* a second call has assembled a non-zero load vector after a first call returned
C26_Witness ==
    /\ Len(outcomes) = 1
    /\ Returned(1)
    /\ pc = "applyBoundaryConditions"
    /\ \E u \in DOMAIN F : F[u] # Zero
    /\ F = assembleLoads(zerosVec(3 * Len(nodes)), 1).value
    /\ dofMap = initializeDOF(nodes)
    /\ totalDOF = 3 * Len(nodes)

Symmetric(A, n) == \A i \in 0..(n - 1) : \A j \in 0..(n - 1) : A[i][j] = A[j][i]

\* the local and the global 6x6 stiffness of a member the formulator accepts
SymmetricContribution(m) ==
    /\ Symmetric(localStiffness(m, LengthOf(m)), 6)
    /\ Symmetric(getMemberGlobalStiffnessMatrix(m, findNode(m.startNodeId),
                                                findNode(m.endNodeId)).value, 6)

(***************************************************************************)
(* C27.  The assembled global stiffness matrix is symmetric, before and    *)
(* after regularization, for every set of members, release combination     *)
(* and orientation, and so are the local and the global 6x6 stiffness of   *)
(* each member.                                                            *)
(***************************************************************************)
C27_SymmetricStiffness ==
    /\ K # unassigned => Symmetric(K, 3 * Len(nodes))
    \* the members never change: they are examined once, before the first call
    /\ outcomes = <<>> /\ pc = "idle" =>
           \A i \in 1..Len(members) :
               ~InvalidMember(members[i]) => SymmetricContribution(members[i])

\* a regularized matrix of an inclined member with a released end
C27_Witness ==
    /\ pc = "solveDisplacements"
    /\ Len(members) = 1
    /\ members[1].startRelease = "pinned"
    /\ AxisSine(members[1]) # Zero
    /\ AxisCosine(members[1]) # Zero
    /\ \E i \in DOMAIN K : K[i][i] = One /\ assembleStiffness(freshK, 1).value[i][i] = Zero
    /\ \E i \in DOMAIN K : \E j \in DOMAIN K : i # j /\ K[i][j] # Zero /\ K[i][j] = K[j][i]

(***************************************************************************)
(* C28.  For every release combination and every load position             *)
(* 0 <= a <= L the local fixed-end forces balance the load: the two axial  *)
(* components are 0, the two transverse components sum to -P, and          *)
(* M_start + M_end + V_end*L + P*a = 0.                                    *)
(***************************************************************************)
C28_FixedEndEquilibrium ==
    OneSpanLoaded =>
        /\ LocalFixedEnd[0] = Zero
        /\ LocalFixedEnd[3] = Zero
        /\ RAdd(LocalFixedEnd[1], LocalFixedEnd[4]) = RNeg(SpanP)
        /\ RAdd(RAdd(LocalFixedEnd[2], LocalFixedEnd[5]),
                RAdd(RMul(LocalFixedEnd[4], R(BeamLength)), RMul(SpanP, SpanA))) = Zero

\* an inclined member pinned at its end only, the load inside the span
C28_Witness ==
    /\ OneSpanLoaded
    /\ PinnedAtEndOnly
    /\ BeamLength = 5
    /\ loads[1].position = 1
    /\ LocalFixedEnd[2] # Zero
    /\ LocalFixedEnd[5] = Zero
    /\ LocalFixedEnd[1] # Zero
    /\ LocalFixedEnd[4] # Zero
    /\ RAdd(LocalFixedEnd[1], LocalFixedEnd[4]) = R(10)

\* every load of member m lies in [0, L)
LoadsInside(m) ==
    \A k \in 1..Len(loads) :
        loads[k].memberId = m.id => loads[k].position >= 0 /\ loads[k].position < LengthOf(m)

ClosesOn(diagram, forces) ==
    /\ Last(diagram.shear) = forces.shearEnd
    /\ First(diagram.moment) = RNeg(forces.momentStart)
    /\ Last(diagram.moment) = RNeg(forces.momentEnd)

(***************************************************************************)
(* C29.  Diagram closure against end forces: for every member of every     *)
(* returned result, in every orientation, with all its loads at positions  *)
(* in [0, L), the last shear sample equals memberForces.shearEnd, the      *)
(* first moment sample equals -memberForces.momentStart and the last       *)
(* moment sample equals -memberForces.momentEnd.                           *)
(***************************************************************************)
C29_DiagramClosure ==
    \A k \in 1..Len(outcomes) :
        Returned(k) =>
            \A i \in 1..Len(members) :
                LoadsInside(members[i]) =>
                    ClosesOn(outcomes[k].value.diagrams[members[i].id],
                             outcomes[k].value.memberForces[members[i].id])

\* the types of the supports a node carries
SupportTypesAt(nodeId) == {supports[k].type : k \in {j \in 1..Len(supports) : supports[j].nodeId = nodeId}}

(***************************************************************************)
(* C30.  In every returned result a reaction component reported in a       *)
(* direction that none of the node's supports constrains is zero within    *)
(* the tolerance: Mz at a node carrying only pin supports, Fx and Mz at a  *)
(* node carrying only roller supports.                                     *)
(***************************************************************************)
C30_FreeDirectionsCarryNothing ==
    \A k \in 1..Len(outcomes) :
        Returned(k) =>
            \A id \in DOMAIN outcomes[k].value.reactions :
                /\ SupportTypesAt(id) = {"pin"} => Near(outcomes[k].value.reactions[id].Mz, Zero)
                /\ SupportTypesAt(id) = {"roller"} =>
                       /\ Near(outcomes[k].value.reactions[id].Fx, Zero)
                       /\ Near(outcomes[k].value.reactions[id].Mz, Zero)

=============================================================================
